---- MODULE Spec2Model ----
(***************************************************************************)
(* Submission-processing pipeline of the data-quest backend: the database  *)
(* backed job queue and worker loop (BackEnd/src/services/worker.ts), the  *)
(* risk engine and decision (BackEnd/src/agents/fraud-guard.ts), the       *)
(* payout executor (BackEnd/src/agents/payout.ts), the spend authorizer    *)
(* and audit sink (BackEnd/src/locus/adapter.ts), submission intake        *)
(* (BackEnd/src/routes/submissions.ts) and the administrative              *)
(* force-approve (BackEnd/src/routes/admin.ts).                            *)
(*                                                                         *)
(* Database model: every Prisma call outside prisma.$transaction is one    *)
(* auto-committed statement, hence one step. The interactive transaction   *)
(* of payoutAgent holds the row lock of the quest from its SELECT ... FOR  *)
(* UPDATE to its end; its writes sit in txn[w] and reach the tables only   *)
(* at commit (READ COMMITTED), a throw inside the callback discards them.  *)
(*                                                                         *)
(* payoutAgent is modelled as called with the id of the submission the     *)
(* worker loaded (input.submissionId, payout.ts:105).                      *)
(***************************************************************************)
EXTENDS Integers, Sequences, FiniteSets, TLC

\* ---------------------------------------------------------------- bounds
NumWorkers == 2
NumSubs == 2
MaxBudgetUnits == 2
MaxForce == 1
MaxIntake == 1
MaxPrior == 2
MaxExtra == 3

\* ------------------------------------------------------ program constants
UnitAmount == 10
maxRetries == 3
\* risk scores and quality scores in hundredths
BaseRisk == 10
DuplicateRisk == 100
FlagRisk == 50
QualityRisk == 30
RiskThreshold == 50
VelocityCap == 3
WindowDays == 7
MinWords == 12
ShortWords == 20
BaseRisk_v2 == 0
MinWords_v2 == 15

Workers == 1..NumWorkers
Subs == 1..NumSubs

VARIABLES
  demoMode,          \* process.env.DEMO_MODE === 'true'
  budget_total,      \* Quest.budget_total
  budget_remaining,  \* Quest.budget_remaining (committed value)
  questLock,         \* holder of the Quest row lock (0 = free)
  subStatus,         \* Submission.status, "NONE" before intake
  vr,                \* VerificationResult per submission
  payout,            \* Payout per submission (committed)
  jobs,              \* Job table in created_at order
  audit,             \* AuditEvent table (append-only)
  transfers,         \* history: transfers made per submission; numbers the references
  nForce,            \* number of force-approve requests received
  proc,              \* worker process in which each workerLoop invocation runs
  isRunning,         \* worker.ts module flag, one per worker process
  pc,                \* position of each workerLoop invocation
  wJob,              \* jobId held by the tick (0 = none)
  wDecision,         \* decision computed by processVerificationJob
  attempt,           \* loop variable of retry()
  lastError,         \* error caught last (retry's lastError / thrown error)
  result,            \* PayoutResult.txHash returned by payoutAgent (0 = none)
  txn,               \* uncommitted writes of the payout transaction
  debits,            \* history: committed budget decrements per submission
  adapter,           \* build of locus/adapter.ts in use: 1 = first class, 2 = second
  vInput,            \* eligibility predicates and submission the rule verifier is given
  vTrace,            \* result of the rule verifier and the decision taken on it
  fgTable,           \* Submission rows (with their traces) the risk engine queries
  fraud              \* result of the risk engine and the decision taken on it

vars == <<demoMode, budget_total, budget_remaining, questLock, subStatus, vr,
          payout, jobs, audit, transfers, nForce, proc, isRunning, pc, wJob,
          wDecision, attempt, lastError, result, txn, debits, adapter, vInput,
          vTrace, fgTable, fraud>>

\* ------------------------------------------------------------------ errors
NoError == [cls |-> "none", msg |-> ""]
ErrBudgetExhausted == [cls |-> "PolicyViolation", msg |-> "Quest budget exhausted"]
ErrPolicyDenied == [cls |-> "PolicyViolation", msg |-> "Policy violation"]
ErrNotApproved == [cls |-> "Error", msg |-> "Submission is not approved"]
ErrNoVerification == [cls |-> "Error", msg |-> "Submission has no verification result"]
ErrNetwork == [cls |-> "Error", msg |-> "network timeout"]
ErrTransferReverted == [cls |-> "Error", msg |-> "transaction execution reverted"]
ErrVerifier == [cls |-> "Error", msg |-> "Quest rules not found"]
ErrAudit == [cls |-> "Error", msg |-> "auditEvent.create failed"]
ErrUniqueVr == [cls |-> "Error", msg |-> "Unique constraint failed on submission_id"]

\* messages that contain 'timeout', 'network', 'ECONNRESET' or 'ETIMEDOUT'
TransientMsgs == {"network timeout"}

isTransient(e) == e.cls = "Error" /\ e.msg \in TransientMsgs

\* --------------------------------------------------------------- rows
\* rows: number of rows of the table that belong to the submission
NoVr == [decision |-> "NONE", forced |-> FALSE, rows |-> 0]
NoPayout == [status |-> "NONE", tx_hash |-> 0, mocked |-> FALSE, rows |-> 0]
NoTxn == [debit |-> 0, payout |-> NoPayout, paid |-> FALSE]
NoFraud == [version |-> 0]
NoInput == [eligibility |-> <<>>]
NoTrace == [version |-> 0]

NewJob(t, s) == [type |-> t, entity |-> s, status |-> "QUEUED", attempts |-> 0,
                 last_error |-> ""]

QueuedIds == {i \in 1..Len(jobs) : jobs[i].status = "QUEUED"}

\* variant: ORDER BY created_at DESC
OldestQueued_Newest == CHOOSE i \in QueuedIds : \A k \in QueuedIds : i >= k

\* SELECT id FROM "Job" WHERE status = 'QUEUED' ORDER BY created_at ASC LIMIT 1
OldestQueued == CHOOSE i \in QueuedIds : \A k \in QueuedIds : i <= k

Init ==
  /\ demoMode \in BOOLEAN
  /\ budget_total \in {UnitAmount * k : k \in 1..MaxBudgetUnits}
  /\ budget_remaining = budget_total
  /\ questLock = 0
  /\ subStatus = [s \in Subs |-> "NONE"]
  /\ vr = [s \in Subs |-> NoVr]
  /\ payout = [s \in Subs |-> NoPayout]
  /\ jobs = <<>>
  /\ audit = {}
  /\ transfers = [s \in Subs |-> 0]
  /\ nForce = 0
  /\ proc = [w \in Workers |-> w]
  /\ isRunning = [w \in Workers |-> FALSE]
  /\ pc = [w \in Workers |-> "idle"]
  /\ wJob = [w \in Workers |-> 0]
  /\ wDecision = [w \in Workers |-> "NONE"]
  /\ attempt = [w \in Workers |-> 0]
  /\ lastError = [w \in Workers |-> NoError]
  /\ result = [w \in Workers |-> 0]
  /\ txn = [w \in Workers |-> NoTxn]
  /\ debits = [s \in Subs |-> 0]
  /\ fgTable = <<>>
  /\ fraud = NoFraud
  /\ adapter = 1
  /\ vInput = NoInput
  /\ vTrace = NoTrace

dbVars == <<budget_remaining, questLock, subStatus, vr, payout, jobs, audit,
            transfers, debits>>
\* written by no step of the job pipeline
cfgVars == <<demoMode, budget_total, proc, adapter, vInput, vTrace, fgTable,
             fraud>>
payVars == <<attempt, result, txn>>

\* ------------------------------------------------------- intake and admin
\* POST /api/submissions: submission PENDING plus a QUEUED VERIFY job
CreateSubmission(s) ==
  /\ subStatus[s] = "NONE"
  /\ \A r \in Subs : r < s => subStatus[r] # "NONE"
  /\ Cardinality({r \in Subs : subStatus[r] # "NONE"}) < MaxIntake
  /\ subStatus' = [subStatus EXCEPT ![s] = "PENDING"]
  /\ jobs' = Append(jobs, NewJob("VERIFY", s))
  /\ UNCHANGED <<cfgVars, budget_remaining, questLock, vr, payout, audit,
                 transfers, nForce, isRunning, pc, wJob, wDecision, lastError,
                 payVars, debits>>

\* upsert: the row found by its unique key is updated, else one is inserted
upsertRows(n) == IF n = 0 THEN 1 ELSE n

\* variant: a second VerificationResult can be inserted for a submission
UniqueViolation_Never(s) == FALSE

\* create: submission_id of VerificationResult is unique
UniqueViolation(s) == vr[s].rows > 0

\* variant: the route is served whatever DEMO_MODE says
forceApproveRefused_Never == FALSE

\* force-approve: 403 unless process.env.DEMO_MODE === 'true'
forceApproveRefused == ~demoMode

\* POST /api/admin/submissions/:id/force-approve: 403 outside demo mode, 404
\* for an unknown id, else verificationResult.upsert, submission.update and
\* job.create
ForceApprove(s) ==
  /\ nForce < MaxForce
  /\ nForce' = nForce + 1
  /\ IF forceApproveRefused \/ subStatus[s] = "NONE"
     THEN UNCHANGED <<vr, subStatus, jobs>>
     ELSE /\ vr' = [vr EXCEPT ![s] = [decision |-> "APPROVE", forced |-> TRUE,
                                       rows |-> upsertRows(vr[s].rows)]]
          /\ subStatus' = [subStatus EXCEPT ![s] = "APPROVED"]
          /\ jobs' = Append(jobs, NewJob("PAYOUT", s))
  /\ UNCHANGED <<cfgVars, budget_remaining, questLock, payout, audit, transfers,
                 isRunning, pc, wJob, wDecision, lastError, payVars, debits>>

\* ------------------------------------------------------------ worker loop
JobOf(w) == jobs[wJob[w]]
SubOf(w) == jobs[wJob[w]].entity

\* the invocation slot is free: its last invocation has returned ("skipped"
\* when it returned at the re-entrancy test)
Idle(w) == pc[w] \in {"idle", "skipped"}

\* variant: the flag is not consulted
Reentrant_Never(w) == FALSE

\* workerLoop: if (isRunning) return
Reentrant(w) == isRunning[proc[w]]

\* workerLoop fired while an earlier invocation of the same process is in
\* flight: it returns before the try block, the flag stays set
TickSkip(w) ==
  /\ Idle(w)
  /\ Reentrant(w)
  /\ pc' = [pc EXCEPT ![w] = "skipped"]
  /\ UNCHANGED <<cfgVars, dbVars, nForce, isRunning, wJob, wDecision, lastError,
                 payVars>>

\* workerLoop with an empty queue: the flag is set and the SELECT of
\* claimNextJob returns no row
TickEmpty(w) ==
  /\ Idle(w)
  /\ ~Reentrant(w)
  /\ QueuedIds = {}
  /\ isRunning' = [isRunning EXCEPT ![proc[w]] = TRUE]
  /\ pc' = [pc EXCEPT ![w] = "no_job"]
  /\ UNCHANGED <<cfgVars, dbVars, nForce, wJob, wDecision, lastError, payVars>>

\* workerLoop: claimNextJob returned null, isRunning = false, return
TickNoJob(w) ==
  /\ pc[w] = "no_job"
  /\ isRunning' = [isRunning EXCEPT ![proc[w]] = FALSE]
  /\ pc' = [pc EXCEPT ![w] = "idle"]
  /\ UNCHANGED <<cfgVars, dbVars, nForce, wJob, wDecision, lastError, payVars>>

\* workerLoop up to the SELECT of claimNextJob. The raw query runs outside
\* any transaction, so its FOR UPDATE SKIP LOCKED row lock ends with the
\* statement and the row is still QUEUED for other workers.
Tick(w) ==
  /\ Idle(w)
  /\ ~Reentrant(w)
  /\ QueuedIds # {}
  /\ isRunning' = [isRunning EXCEPT ![proc[w]] = TRUE]
  /\ wJob' = [wJob EXCEPT ![w] = OldestQueued]
  /\ pc' = [pc EXCEPT ![w] = "claim_update"]
  /\ UNCHANGED <<cfgVars, dbVars, nForce, wDecision, lastError, payVars>>

\* claimNextJob: prisma.job.update to PROCESSING, attempts + 1
ClaimUpdate(w) ==
  /\ pc[w] = "claim_update"
  /\ jobs' = [jobs EXCEPT ![wJob[w]].status = "PROCESSING",
                          ![wJob[w]].attempts = @ + 1]
  /\ pc' = [pc EXCEPT ![w] = "dispatch"]
  /\ UNCHANGED <<cfgVars, budget_remaining, questLock, subStatus, vr, payout,
                 audit, transfers, nForce, isRunning, wJob, wDecision, lastError,
                 payVars, debits>>

\* processJob -> processVerificationJob: findUnique and the status test
VerifyLoad(w) ==
  /\ pc[w] = "dispatch"
  /\ JobOf(w).type = "VERIFY"
  /\ pc' = [pc EXCEPT ![w] = IF subStatus[SubOf(w)] \in {"PENDING", "QUEUED"}
                             THEN "v_mark" ELSE "complete"]
  /\ UNCHANGED <<cfgVars, dbVars, nForce, isRunning, wJob, wDecision,
                 lastError, payVars>>

\* processVerificationJob: status := PROCESSING
VerifyMark(w) ==
  /\ pc[w] = "v_mark"
  /\ subStatus' = [subStatus EXCEPT ![SubOf(w)] = "PROCESSING"]
  /\ pc' = [pc EXCEPT ![w] = "v_agents"]
  /\ UNCHANGED <<cfgVars, budget_remaining, questLock, vr, payout, jobs, audit,
                 transfers, nForce, isRunning, wJob, wDecision, lastError,
                 payVars, debits>>

\* processVerificationJob: the two agents, the decision and
\* verificationResult.create (submission_id is unique)
VerifyAgents(w) ==
  /\ pc[w] = "v_agents"
  /\ \E outcome \in {"APPROVE", "REJECT", "throw"} :
       IF outcome = "throw"
       THEN /\ lastError' = [lastError EXCEPT ![w] = ErrVerifier]
            /\ pc' = [pc EXCEPT ![w] = "v_catch"]
            /\ UNCHANGED <<vr, wDecision>>
       ELSE IF UniqueViolation(SubOf(w))
       THEN /\ lastError' = [lastError EXCEPT ![w] = ErrUniqueVr]
            /\ pc' = [pc EXCEPT ![w] = "v_catch"]
            /\ UNCHANGED <<vr, wDecision>>
       ELSE /\ vr' = [vr EXCEPT ![SubOf(w)] =
                        [decision |-> outcome, forced |-> FALSE,
                         rows |-> vr[SubOf(w)].rows + 1]]
            /\ wDecision' = [wDecision EXCEPT ![w] = outcome]
            /\ pc' = [pc EXCEPT ![w] = "v_status"]
            /\ UNCHANGED lastError
  /\ UNCHANGED <<cfgVars, budget_remaining, questLock, subStatus, payout, jobs,
                 audit, transfers, nForce, isRunning, wJob, payVars, debits>>

\* variant: a PAYOUT job is enqueued whatever the decision
VerifyStatus_AlwaysEnqueue(w) ==
  /\ pc[w] = "v_status"
  /\ subStatus' = [subStatus EXCEPT ![SubOf(w)] =
                     IF wDecision[w] = "APPROVE" THEN "APPROVED" ELSE "REJECTED"]
  /\ pc' = [pc EXCEPT ![w] = "v_enqueue"]
  /\ UNCHANGED <<cfgVars, budget_remaining, questLock, vr, payout, jobs, audit,
                 transfers, nForce, isRunning, wJob, wDecision, lastError,
                 payVars, debits>>

\* processVerificationJob: status := APPROVED / REJECTED
VerifyStatus(w) ==
  /\ pc[w] = "v_status"
  /\ subStatus' = [subStatus EXCEPT ![SubOf(w)] =
                     IF wDecision[w] = "APPROVE" THEN "APPROVED" ELSE "REJECTED"]
  /\ pc' = [pc EXCEPT ![w] = IF wDecision[w] = "APPROVE" THEN "v_enqueue"
                             ELSE "complete"]
  /\ UNCHANGED <<cfgVars, budget_remaining, questLock, vr, payout, jobs, audit,
                 transfers, nForce, isRunning, wJob, wDecision, lastError,
                 payVars, debits>>

\* processVerificationJob: job.create PAYOUT
VerifyEnqueue(w) ==
  /\ pc[w] = "v_enqueue"
  /\ jobs' = Append(jobs, NewJob("PAYOUT", SubOf(w)))
  /\ pc' = [pc EXCEPT ![w] = "complete"]
  /\ UNCHANGED <<cfgVars, budget_remaining, questLock, subStatus, vr, payout,
                 audit, transfers, nForce, isRunning, wJob, wDecision, lastError,
                 payVars, debits>>

\* processVerificationJob: catch, status := FAILED, rethrow
VerifyCatch(w) ==
  /\ pc[w] = "v_catch"
  /\ subStatus' = [subStatus EXCEPT ![SubOf(w)] = "FAILED"]
  /\ pc' = [pc EXCEPT ![w] = "job_catch"]
  /\ UNCHANGED <<cfgVars, budget_remaining, questLock, vr, payout, jobs, audit,
                 transfers, nForce, isRunning, wJob, wDecision, lastError,
                 payVars, debits>>

\* processJob -> processPayoutJob: findUnique, the two tests, then payoutAgent
\* enters retry() with attempt = 0
PayoutJobLoad(w) ==
  /\ pc[w] = "dispatch"
  /\ JobOf(w).type = "PAYOUT"
  /\ IF vr[SubOf(w)].decision = "NONE"
     THEN /\ lastError' = [lastError EXCEPT ![w] = ErrNoVerification]
          /\ pc' = [pc EXCEPT ![w] = "job_catch"]
     ELSE /\ pc' = [pc EXCEPT ![w] = IF subStatus[SubOf(w)] # "APPROVED"
                                    THEN "complete" ELSE "pa_load"]
          /\ UNCHANGED lastError
  /\ attempt' = [attempt EXCEPT ![w] = 0]
  /\ UNCHANGED <<cfgVars, dbVars, nForce, isRunning, wJob, wDecision, result,
                 txn>>

\* ---------------------------------------------------------- payout executor
\* variant: the executor goes on whatever the submission's status
PayoutLoad_AnyStatus(w) ==
  /\ pc[w] = "pa_load"
  /\ LET s == SubOf(w)
         loaded == [status |-> subStatus[s], vr |-> vr[s].decision,
                    payout |-> payout[s]]
     IN IF loaded.vr = "NONE"
        THEN /\ lastError' = [lastError EXCEPT ![w] = ErrNoVerification]
             /\ pc' = [pc EXCEPT ![w] = "pa_catch"]
             /\ UNCHANGED result
        ELSE IF loaded.payout.status = "COMPLETED"
        THEN /\ result' = [result EXCEPT ![w] = loaded.payout.tx_hash]
             /\ pc' = [pc EXCEPT ![w] = "complete"]
             /\ UNCHANGED lastError
        ELSE /\ pc' = [pc EXCEPT ![w] = "pa_lock"]
             /\ UNCHANGED <<lastError, result>>
  /\ UNCHANGED <<cfgVars, dbVars, nForce, isRunning, wJob, wDecision, attempt,
                 txn>>

\* payoutAgent, one attempt: findUnique with relations and the three guards;
\* a COMPLETED payout returns the stored tx_hash
PayoutLoad(w) ==
  /\ pc[w] = "pa_load"
  /\ LET s == SubOf(w)
         loaded == [status |-> subStatus[s], vr |-> vr[s].decision,
                    payout |-> payout[s]]
     IN IF loaded.vr = "NONE"
        THEN /\ lastError' = [lastError EXCEPT ![w] = ErrNoVerification]
             /\ pc' = [pc EXCEPT ![w] = "pa_catch"]
             /\ UNCHANGED result
        ELSE IF loaded.status # "APPROVED"
        THEN /\ lastError' = [lastError EXCEPT ![w] = ErrNotApproved]
             /\ pc' = [pc EXCEPT ![w] = "pa_catch"]
             /\ UNCHANGED result
        ELSE IF loaded.payout.status = "COMPLETED"
        THEN /\ result' = [result EXCEPT ![w] = loaded.payout.tx_hash]
             /\ pc' = [pc EXCEPT ![w] = "complete"]
             /\ UNCHANGED lastError
        ELSE /\ pc' = [pc EXCEPT ![w] = "pa_lock"]
             /\ UNCHANGED <<lastError, result>>
  /\ UNCHANGED <<cfgVars, dbVars, nForce, isRunning, wJob, wDecision, attempt,
                 txn>>

\* variant: the row lock is granted whoever holds it
LockAvailable_Always == TRUE

\* the row lock of SELECT ... FOR UPDATE is granted when no transaction holds it
LockAvailable == questLock = 0

\* variant: the re-check under the lock never fails
InsufficientBudget_Never(budgetRemaining, unitAmount) == FALSE

\* re-check of the budget under the lock
InsufficientBudget(budgetRemaining, unitAmount) == budgetRemaining < unitAmount

\* payoutAgent: $transaction begins, SELECT ... FOR UPDATE, budget re-check
PayoutLock(w) ==
  /\ pc[w] = "pa_lock"
  /\ LockAvailable
  /\ questLock' = w
  /\ IF InsufficientBudget(budget_remaining, UnitAmount)
     THEN /\ lastError' = [lastError EXCEPT ![w] = ErrBudgetExhausted]
          /\ pc' = [pc EXCEPT ![w] = "pa_rollback"]
     ELSE /\ pc' = [pc EXCEPT ![w] = "pa_auth"]
          /\ UNCHANGED lastError
  /\ UNCHANGED <<cfgVars, budget_remaining, subStatus, vr, payout, jobs, audit,
                 transfers, nForce, isRunning, wJob, wDecision, payVars, debits>>

\* LocusAdapterStub.authorizeSpend: budget test on the committed quest row;
\* the remaining policy tests (per payout, per day, velocity) are the
\* argument policyOk
authorizeSpend(policyOk, amount) == policyOk /\ ~(amount > budget_remaining)

\* authorizeSpend of the second build: its SELECT ... FOR UPDATE runs on the
\* adapter's own connection and waits while a transaction holds the quest row
authorizerWaits == adapter = 2 /\ questLock # 0

\* payoutAgent: authorizeSpend, budget decrement, payout upsert
PayoutAuthorize(w) ==
  /\ pc[w] = "pa_auth"
  /\ ~authorizerWaits
  /\ \E policyOk \in BOOLEAN :
       IF ~authorizeSpend(policyOk, UnitAmount)
       THEN /\ lastError' = [lastError EXCEPT ![w] = ErrPolicyDenied]
            /\ pc' = [pc EXCEPT ![w] = "pa_rollback"]
            /\ UNCHANGED txn
       ELSE /\ txn' = [txn EXCEPT ![w] =
                        [debit |-> UnitAmount,
                         payout |-> [payout[SubOf(w)] EXCEPT
                                       !.status = "PROCESSING",
                                       !.rows = upsertRows(@)],
                         paid |-> FALSE]]
            /\ pc' = [pc EXCEPT ![w] = "pa_transfer"]
            /\ UNCHANGED lastError
  /\ UNCHANGED <<cfgVars, dbVars, nForce, isRunning, wJob, wDecision, attempt,
                 result>>

\* the reference of the transfer being made: fresh for every transfer
\* (keccak256(submissionId|timestamp), or the hash of the chain transaction)
TxRef(w) == transfers[SubOf(w)] + 1

\* outcomes of the transfer: generateDemoTxHash cannot fail, executeRealPayout
\* returns tx.hash or throws
TransferOutcomes == IF demoMode THEN {"ok"} ELSE {"ok", "network", "reverted"}

\* LocusAdapterStub.recordAudit: auditEvent.create on the adapter's own
\* connection; a failed insert is logged and swallowed
recordAudit(insertOk, event) == IF insertOk THEN audit \cup {event} ELSE audit

\* variant: the first build lets the failed insert reach the caller
auditThrows_Rethrown(insertOk) == ~insertOk

\* recordAudit of the first build: catch, console.error, no throw
auditThrows(insertOk) == FALSE

\* recordAudit of the second build: no catch, the failed create rejects
auditThrows_v2(insertOk) == ~insertOk

\* payoutAgent: transfer; on success payout COMPLETED, submission PAID and
\* recordAudit on the adapter's own connection, awaited inside the
\* transaction callback: when it rejects the callback rejects; on a failed
\* transfer payout FAILED inside the transaction and rethrow
PayoutTransfer(w) ==
  /\ pc[w] = "pa_transfer"
  /\ \E outcome \in TransferOutcomes, auditOk \in BOOLEAN :
       IF outcome = "ok"
       THEN /\ txn' = [txn EXCEPT ![w].payout =
                         [status |-> "COMPLETED", tx_hash |-> TxRef(w),
                          mocked |-> demoMode, rows |-> txn[w].payout.rows],
                                  ![w].paid = TRUE]
            /\ transfers' = [transfers EXCEPT ![SubOf(w)] = @ + 1]
            /\ audit' = recordAudit(auditOk, [entity |-> SubOf(w),
                                              event |-> "payout_completed",
                                              tx_hash |-> TxRef(w)])
            /\ IF (IF adapter = 1 THEN auditThrows(auditOk)
                   ELSE auditThrows_v2(auditOk))
               THEN /\ lastError' = [lastError EXCEPT ![w] = ErrAudit]
                    /\ pc' = [pc EXCEPT ![w] = "pa_rollback"]
               ELSE /\ pc' = [pc EXCEPT ![w] = "pa_commit"]
                    /\ UNCHANGED lastError
       ELSE /\ auditOk
            /\ txn' = [txn EXCEPT ![w].payout.status = "FAILED"]
            /\ lastError' = [lastError EXCEPT ![w] =
                               IF outcome = "network" THEN ErrNetwork
                               ELSE ErrTransferReverted]
            /\ pc' = [pc EXCEPT ![w] = "pa_rollback"]
            /\ UNCHANGED <<transfers, audit>>
  /\ UNCHANGED <<cfgVars, budget_remaining, questLock, subStatus, vr, payout,
                 jobs, nForce, isRunning, wJob, wDecision, attempt, result,
                 debits>>

\* $transaction: the callback returned, COMMIT
PayoutCommit(w) ==
  /\ pc[w] = "pa_commit"
  /\ LET s == SubOf(w)
     IN /\ budget_remaining' = budget_remaining - txn[w].debit
        /\ payout' = [payout EXCEPT ![s] = txn[w].payout]
        /\ subStatus' = [subStatus EXCEPT ![s] = IF txn[w].paid THEN "PAID" ELSE @]
        /\ debits' = [debits EXCEPT ![s] = @ + 1]
        /\ result' = [result EXCEPT ![w] = txn[w].payout.tx_hash]
  /\ questLock' = 0
  /\ txn' = [txn EXCEPT ![w] = NoTxn]
  /\ pc' = [pc EXCEPT ![w] = "complete"]
  /\ UNCHANGED <<cfgVars, vr, jobs, audit, transfers, nForce, isRunning, wJob,
                 wDecision, attempt, lastError>>

\* variant: the budget decrement survives the failed callback
PayoutRollback_KeepsDebit(w) ==
  /\ pc[w] = "pa_rollback"
  /\ budget_remaining' = budget_remaining - txn[w].debit
  /\ questLock' = 0
  /\ txn' = [txn EXCEPT ![w] = NoTxn]
  /\ pc' = [pc EXCEPT ![w] = "pa_catch"]
  /\ UNCHANGED <<cfgVars, subStatus, vr, payout, jobs, audit, transfers,
                 nForce, isRunning, wJob, wDecision, attempt, lastError,
                 result, debits>>

\* $transaction: the callback threw, ROLLBACK
PayoutRollback(w) ==
  /\ pc[w] = "pa_rollback"
  /\ questLock' = 0
  /\ txn' = [txn EXCEPT ![w] = NoTxn]
  /\ pc' = [pc EXCEPT ![w] = "pa_catch"]
  /\ UNCHANGED <<cfgVars, budget_remaining, subStatus, vr, payout, jobs, audit,
                 transfers, nForce, isRunning, wJob, wDecision, attempt,
                 lastError, result, debits>>

\* variant: a PolicyViolation is handled like any other error
rethrowAtOnce_Never(e) == FALSE

\* retry(): a PolicyViolation is rethrown at once
rethrowAtOnce(e) == e.cls = "PolicyViolation"

\* variant: the loop bound is off by one
retryLoopContinues_OneMore(next) == next <= maxRetries

\* retry(): the loop goes on while attempt < maxRetries
retryLoopContinues(next) == next < maxRetries

\* retry(): catch block, backoff and next iteration, or throw
RetryCatch(w) ==
  /\ pc[w] = "pa_catch"
  /\ IF rethrowAtOnce(lastError[w])
     THEN /\ pc' = [pc EXCEPT ![w] = "job_catch"]
          /\ UNCHANGED attempt
     ELSE /\ attempt' = [attempt EXCEPT ![w] = @ + 1]
          /\ pc' = [pc EXCEPT ![w] = IF retryLoopContinues(attempt[w] + 1)
                                     THEN "pa_load" ELSE "job_catch"]
  /\ UNCHANGED <<cfgVars, dbVars, nForce, isRunning, wJob, wDecision,
                 lastError, result, txn>>

\* ------------------------------------------------------------ finalisation
\* variant: the flag stays set when the tick ends
ResetLocals_FlagStuck(w) ==
  /\ isRunning' = isRunning
  /\ pc' = [pc EXCEPT ![w] = "idle"]
  /\ wJob' = [wJob EXCEPT ![w] = 0]
  /\ wDecision' = [wDecision EXCEPT ![w] = "NONE"]
  /\ attempt' = [attempt EXCEPT ![w] = 0]
  /\ lastError' = [lastError EXCEPT ![w] = NoError]
  /\ result' = [result EXCEPT ![w] = 0]

ResetLocals(w) ==
  /\ isRunning' = [isRunning EXCEPT ![proc[w]] = FALSE]
  /\ pc' = [pc EXCEPT ![w] = "idle"]
  /\ wJob' = [wJob EXCEPT ![w] = 0]
  /\ wDecision' = [wDecision EXCEPT ![w] = "NONE"]
  /\ attempt' = [attempt EXCEPT ![w] = 0]
  /\ lastError' = [lastError EXCEPT ![w] = NoError]
  /\ result' = [result EXCEPT ![w] = 0]

\* processJob: catch, job FAILED with last_error and attempts + 1, rethrow;
\* workerLoop logs it and clears isRunning
JobCatch(w) ==
  /\ pc[w] = "job_catch"
  /\ jobs' = [jobs EXCEPT ![wJob[w]].status = "FAILED",
                          ![wJob[w]].last_error = lastError[w].msg,
                          ![wJob[w]].attempts = @ + 1]
  /\ ResetLocals(w)
  /\ UNCHANGED <<cfgVars, budget_remaining, questLock, subStatus, vr, payout,
                 audit, transfers, nForce, txn, debits>>

\* variant: the tick ends without recording the result on the job
JobComplete_Dropped(w) ==
  /\ pc[w] = "complete"
  /\ ResetLocals(w)
  /\ UNCHANGED <<cfgVars, budget_remaining, questLock, subStatus, vr, payout,
                 jobs, audit, transfers, nForce, txn, debits>>

\* workerLoop: processJob returned, job COMPLETED, isRunning cleared
JobComplete(w) ==
  /\ pc[w] = "complete"
  /\ jobs' = [jobs EXCEPT ![wJob[w]].status = "COMPLETED"]
  /\ ResetLocals(w)
  /\ UNCHANGED <<cfgVars, budget_remaining, questLock, subStatus, vr, payout,
                 audit, transfers, nForce, txn, debits>>

WorkerStep(w) ==
  \/ Tick(w)
  \/ ClaimUpdate(w)
  \/ VerifyLoad(w)
  \/ VerifyMark(w)
  \/ VerifyAgents(w)
  \/ VerifyStatus(w)
  \/ VerifyEnqueue(w)
  \/ VerifyCatch(w)
  \/ PayoutJobLoad(w)
  \/ PayoutLoad(w)
  \/ PayoutLock(w)
  \/ PayoutAuthorize(w)
  \/ PayoutTransfer(w)
  \/ PayoutCommit(w)
  \/ PayoutRollback(w)
  \/ RetryCatch(w)
  \/ JobCatch(w)
  \/ JobComplete(w)

Next ==
  \/ \E s \in Subs : CreateSubmission(s)
  \/ \E s \in Subs : ForceApprove(s)
  \/ \E w \in Workers : WorkerStep(w)

Spec == Init /\ [][Next]_vars

\* ------------------------------------------------- payout phase on its own
\* Every submission has been verified and approved by one worker, in order:
\* VERIFY job COMPLETED after one claim, PAYOUT job QUEUED, workers idle.
ApprovedJobs(n) ==
  [i \in 1..(2 * n) |->
     IF i % 2 = 1
     THEN [NewJob("VERIFY", (i + 1) \div 2) EXCEPT !.status = "COMPLETED",
                                                   !.attempts = 1]
     ELSE NewJob("PAYOUT", i \div 2)]

InitPayout ==
  /\ demoMode \in BOOLEAN
  /\ budget_total \in {UnitAmount * k : k \in 1..MaxBudgetUnits}
  /\ budget_remaining = budget_total
  /\ questLock = 0
  /\ subStatus = [s \in Subs |-> "APPROVED"]
  /\ vr = [s \in Subs |-> [decision |-> "APPROVE", forced |-> FALSE, rows |-> 1]]
  /\ payout = [s \in Subs |-> NoPayout]
  /\ jobs = ApprovedJobs(NumSubs)
  /\ audit = {}
  /\ transfers = [s \in Subs |-> 0]
  /\ nForce = 0
  /\ proc = [w \in Workers |-> w]
  /\ isRunning = [w \in Workers |-> FALSE]
  /\ pc = [w \in Workers |-> "idle"]
  /\ wJob = [w \in Workers |-> 0]
  /\ wDecision = [w \in Workers |-> "NONE"]
  /\ attempt = [w \in Workers |-> 0]
  /\ lastError = [w \in Workers |-> NoError]
  /\ result = [w \in Workers |-> 0]
  /\ txn = [w \in Workers |-> NoTxn]
  /\ debits = [s \in Subs |-> 0]
  /\ fgTable = <<>>
  /\ fraud = NoFraud
  /\ adapter = 1
  /\ vInput = NoInput
  /\ vTrace = NoTrace

PayoutStep(w) ==
  \/ Tick(w)
  \/ ClaimUpdate(w)
  \/ PayoutJobLoad(w)
  \/ PayoutLoad(w)
  \/ PayoutLock(w)
  \/ PayoutAuthorize(w)
  \/ PayoutTransfer(w)
  \/ PayoutCommit(w)
  \/ PayoutRollback(w)
  \/ RetryCatch(w)
  \/ JobCatch(w)
  \/ JobComplete(w)

NextPayout ==
  \/ \E s \in Subs : ForceApprove(s)
  \/ \E w \in Workers : PayoutStep(w)

SpecPayout == InitPayout /\ [][NextPayout]_vars

\* ------------------------------------- payout phase, either adapter build
InitAdapter ==
  /\ demoMode \in BOOLEAN
  /\ budget_total \in {UnitAmount * k : k \in 1..MaxBudgetUnits}
  /\ budget_remaining = budget_total
  /\ questLock = 0
  /\ subStatus = [s \in Subs |-> "APPROVED"]
  /\ vr = [s \in Subs |-> [decision |-> "APPROVE", forced |-> FALSE, rows |-> 1]]
  /\ payout = [s \in Subs |-> NoPayout]
  /\ jobs = ApprovedJobs(NumSubs)
  /\ audit = {}
  /\ transfers = [s \in Subs |-> 0]
  /\ nForce = 0
  /\ proc = [w \in Workers |-> w]
  /\ isRunning = [w \in Workers |-> FALSE]
  /\ pc = [w \in Workers |-> "idle"]
  /\ wJob = [w \in Workers |-> 0]
  /\ wDecision = [w \in Workers |-> "NONE"]
  /\ attempt = [w \in Workers |-> 0]
  /\ lastError = [w \in Workers |-> NoError]
  /\ result = [w \in Workers |-> 0]
  /\ txn = [w \in Workers |-> NoTxn]
  /\ debits = [s \in Subs |-> 0]
  /\ fgTable = <<>>
  /\ fraud = NoFraud
  /\ adapter \in {1, 2}
  /\ vInput = NoInput
  /\ vTrace = NoTrace

SpecAdapter == InitAdapter /\ [][NextPayout]_vars

\* ---------------------------------- payout phase, a transfer may not return
\* executeRealPayout awaits contract.transfer and tx.wait() with no timeout:
\* when the RPC node never answers or the transaction is never mined the
\* await never settles and the invocation stays where it is
TransferHangs(w) ==
  /\ pc[w] = "pa_transfer"
  /\ ~demoMode
  /\ pc' = [pc EXCEPT ![w] = "pa_hung"]
  /\ UNCHANGED <<cfgVars, dbVars, nForce, isRunning, wJob, wDecision,
                 lastError, payVars>>

HangStep(w) == PayoutStep(w) \/ TransferHangs(w)

NextHang ==
  \/ \E s \in Subs : ForceApprove(s)
  \/ HangStep(1)

\* one worker process, its workerLoop scheduled fairly
SpecHang == InitPayout /\ [][NextHang]_vars /\ WF_vars(HangStep(1))

\* ------------------------------------------------------ one worker process
NextSeq ==
  \/ \E s \in Subs : CreateSubmission(s)
  \/ \E s \in Subs : ForceApprove(s)
  \/ WorkerStep(1)

SpecSeq == Init /\ [][NextSeq]_vars

\* the whole pipeline in one worker process, a transfer may not return
NextSeqHang == NextSeq \/ TransferHangs(1)

SpecSeqHang ==
  Init /\ [][NextSeqHang]_vars /\ WF_vars(WorkerStep(1) \/ TransferHangs(1))

\* ------------------------------------- one process, overlapping timer ticks
\* setInterval fires workerLoop every second whether or not the previous
\* invocation has returned: every invocation slot runs in process 1
InitTick ==
  /\ demoMode \in BOOLEAN
  /\ budget_total \in {UnitAmount * k : k \in 1..MaxBudgetUnits}
  /\ budget_remaining = budget_total
  /\ questLock = 0
  /\ subStatus = [s \in Subs |-> "NONE"]
  /\ vr = [s \in Subs |-> NoVr]
  /\ payout = [s \in Subs |-> NoPayout]
  /\ jobs = <<>>
  /\ audit = {}
  /\ transfers = [s \in Subs |-> 0]
  /\ nForce = 0
  /\ proc = [w \in Workers |-> 1]
  /\ isRunning = [w \in Workers |-> FALSE]
  /\ pc = [w \in Workers |-> "idle"]
  /\ wJob = [w \in Workers |-> 0]
  /\ wDecision = [w \in Workers |-> "NONE"]
  /\ attempt = [w \in Workers |-> 0]
  /\ lastError = [w \in Workers |-> NoError]
  /\ result = [w \in Workers |-> 0]
  /\ txn = [w \in Workers |-> NoTxn]
  /\ debits = [s \in Subs |-> 0]
  /\ fgTable = <<>>
  /\ fraud = NoFraud
  /\ adapter = 1
  /\ vInput = NoInput
  /\ vTrace = NoTrace

TickStep(w) ==
  \/ TickSkip(w)
  \/ TickEmpty(w)
  \/ TickNoJob(w)
  \/ WorkerStep(w)

NextTick ==
  \/ \E s \in Subs : CreateSubmission(s)
  \/ \E s \in Subs : ForceApprove(s)
  \/ \E w \in Workers : TickStep(w)

SpecTick == InitTick /\ [][NextTick]_vars

\* ------------------------------------------------------------- scheduling
\* setInterval fires workerLoop every second and every awaited call of a tick
\* settles: no worker stops for ever at a step it can take
SpecLive == Spec /\ \A w \in Workers : WF_vars(WorkerStep(w))

\* ============================================================ risk engine
\* Two builds of the risk engine are in the repository: fraudGuardAgent of
\* BackEnd/src/agents/fraud-guard.ts, which the worker calls, and the
\* fraudGuardAgent of the second backend tree (unnamed/part_004). Both read
\* the Submission table; sha256 of the canonical string is modelled by the
\* canonical string itself. Amounts are in thousandths of a dollar, creation
\* times in whole days before now.

\* toLowerCase().trim()
Normalized(merchant) ==
  CASE merchant = "Chewy" -> "chewy"
    [] merchant = "CHEWY " -> "chewy"
    [] merchant = "Petco" -> "petco"
    [] OTHER -> merchant

\* date.split('T')[0]
DateOnly(date) ==
  CASE date = "2025-01-15T09:30:00Z" -> "2025-01-15"
    [] OTHER -> date

\* Math.round(amount * 100)
cents(amount) == (amount + 5) \div 10

calculateReceiptFingerprint(merchant, date, amount) ==
  <<Normalized(merchant), DateOnly(date), cents(amount)>>

calculateFuzzyFingerprint(merchant, date) ==
  <<Normalized(merchant), DateOnly(date)>>

\* receipts read by OCR
FieldSets ==
  { [merchant |-> "Chewy", date |-> "2025-01-15", amount |-> 28330],
    [merchant |-> "CHEWY ", date |-> "2025-01-15T09:30:00Z", amount |-> 28334],
    [merchant |-> "Chewy", date |-> "2025-01-15", amount |-> 29000],
    [merchant |-> "Petco", date |-> "2025-01-15", amount |-> 28330],
    [merchant |-> "Chewy", date |-> "2025-01-16", amount |-> 28330] }

\* the submission being verified
Current == [wallet |-> 1, device |-> 1,
            fields |-> [merchant |-> "Chewy", date |-> "2025-01-15",
                        amount |-> 28330]]

\* earlier submissions of the two wallets made from the device of Current
PriorRows ==
  [wallet : {1, 2}, device : {1}, status : {"APPROVED", "PAID", "REJECTED"},
   age : {0, 5, 10}, fields : FieldSets]

\* a submission of the other wallet approved today for an unrelated receipt
ExtraRow(d) ==
  [wallet |-> 2, device |-> d, status |-> "APPROVED", age |-> 0,
   fields |-> [merchant |-> "Petco", date |-> "2025-01-16", amount |-> 10000]]

RECURSIVE SetToSeq(_)
SetToSeq(S) ==
  IF S = {} THEN <<>>
  ELSE LET x == CHOOSE y \in S : TRUE IN <<x>> \o SetToSeq(S \ {x})

\* the sets of at most MaxPrior earlier submissions
RECURSIVE PriorSets(_)
PriorSets(n) ==
  IF n = 0 THEN {{}}
  ELSE {P \cup {r} : P \in PriorSets(n - 1), r \in PriorRows} \cup {{}}

Tables ==
  { SetToSeq(P) \o [i \in 1..n |-> ExtraRow(d)] :
      P \in PriorSets(MaxPrior), n \in 0..MaxExtra, d \in {1, 2} }

\* justification texts by what the quality check looks at
Justifications == [words : {5, 15, 25}, boilerplate : BOOLEAN, keyword : BOOLEAN]

\* rules_fired of the verifier: the ok flag of each eligibility predicate
RuleOutcomes == {<<TRUE, TRUE>>, <<TRUE, FALSE>>, <<>>}

InitFraud ==
  /\ demoMode = FALSE
  /\ budget_total = UnitAmount
  /\ budget_remaining = budget_total
  /\ questLock = 0
  /\ subStatus = [s \in Subs |-> "NONE"]
  /\ vr = [s \in Subs |-> NoVr]
  /\ payout = [s \in Subs |-> NoPayout]
  /\ jobs = <<>>
  /\ audit = {}
  /\ transfers = [s \in Subs |-> 0]
  /\ nForce = 0
  /\ proc = [w \in Workers |-> w]
  /\ isRunning = [w \in Workers |-> FALSE]
  /\ pc = [w \in Workers |-> "idle"]
  /\ wJob = [w \in Workers |-> 0]
  /\ wDecision = [w \in Workers |-> "NONE"]
  /\ attempt = [w \in Workers |-> 0]
  /\ lastError = [w \in Workers |-> NoError]
  /\ result = [w \in Workers |-> 0]
  /\ txn = [w \in Workers |-> NoTxn]
  /\ debits = [s \in Subs |-> 0]
  /\ fgTable \in Tables
  /\ fraud = NoFraud
  /\ adapter = 1
  /\ vInput = NoInput
  /\ vTrace = NoTrace

pipelineVars == <<demoMode, budget_total, budget_remaining, questLock,
                  subStatus, vr, payout, jobs, audit, transfers, nForce, proc,
                  isRunning, pc, wJob, wDecision, attempt, lastError, result,
                  txn, debits, adapter, vInput, vTrace>>

\* the same without the rule verifier's variables
payoutPhaseVars == <<demoMode, budget_total, budget_remaining, questLock,
                     subStatus, vr, payout, jobs, audit, transfers, nForce,
                     proc, isRunning, pc, wJob, wDecision, attempt, lastError,
                     result, txn, debits, adapter>>

Rows == 1..Len(fgTable)
Max(a, b) == IF a >= b THEN a ELSE b
PaidOrApproved(i) == fgTable[i].status \in {"APPROVED", "PAID"}
RowFingerprint(i) ==
  calculateReceiptFingerprint(fgTable[i].fields.merchant, fgTable[i].fields.date,
                              fgTable[i].fields.amount)
RowFuzzy(i) ==
  calculateFuzzyFingerprint(fgTable[i].fields.merchant, fgTable[i].fields.date)
receiptFingerprint ==
  calculateReceiptFingerprint(Current.fields.merchant, Current.fields.date,
                              Current.fields.amount)
fuzzyFingerprint ==
  calculateFuzzyFingerprint(Current.fields.merchant, Current.fields.date)

\* findMany: wallet of the submission, status APPROVED or PAID
previousSubmissions == {i \in Rows : fgTable[i].wallet = Current.wallet /\ PaidOrApproved(i)}

\* findMany: any wallet, created in the last 7 days, status APPROVED or PAID
globalSubmissions == {i \in Rows : fgTable[i].age <= WindowDays /\ PaidOrApproved(i)}

\* findMany: wallet of the submission, last 7 days, status APPROVED or PAID
fuzzyDuplicates ==
  {i \in Rows : /\ fgTable[i].wallet = Current.wallet
                /\ fgTable[i].age <= WindowDays
                /\ PaidOrApproved(i)}

\* fuzzyDuplicates.filter(sub => true).length
similarCount == Cardinality(fuzzyDuplicates)

\* count: same device (and quest), status APPROVED, created since midnight
deviceApprovals ==
  Cardinality({i \in Rows : /\ fgTable[i].device = Current.device
                            /\ fgTable[i].status = "APPROVED"
                            /\ fgTable[i].age = 0})

\* variant: the cap is one higher
velocityExceeded_Late(n) == n >= VelocityCap + 1

\* deviceApprovals >= 3
velocityExceeded(n) == n >= VelocityCap

checkJustificationQuality(justification, enableQualityScoring) ==
  IF ~enableQualityScoring THEN [score |-> 100, flags |-> {}]
  ELSE LET len == IF justification.words < MinWords THEN [f |-> {"too_short"}, p |-> 20]
                  ELSE IF justification.words < ShortWords THEN [f |-> {"short"}, p |-> 10]
                  ELSE [f |-> {}, p |-> 0]
           boil == IF justification.boilerplate THEN [f |-> {"boilerplate"}, p |-> 30]
                   ELSE [f |-> {}, p |-> 0]
           pet == IF ~justification.keyword THEN [f |-> {"no_pet_keyword"}, p |-> 20]
                  ELSE [f |-> {}, p |-> 0]
       IN [score |-> Max(0, 100 - len.p - boil.p - pet.p),
           flags |-> len.f \cup boil.f \cup pet.f]

\* variant: quality flags count like a fuzzy match
qualityRisk_Blocking == FlagRisk

\* risk_score = Math.max(risk_score, 0.3)
qualityRisk == QualityRisk

\* fraudGuardAgent of fraud-guard.ts
fraudGuardAgent(justification, enableQualityScoring) ==
  IF \E i \in previousSubmissions : RowFingerprint(i) = receiptFingerprint
  THEN [version |-> 1, duplicate |-> TRUE, device_velocity |-> 0,
        risk_score |-> DuplicateRisk,
        reasons |-> {"Exact duplicate receipt found"},
        quality_score |-> 100, quality_flags |-> {}]
  ELSE IF \E i \in globalSubmissions : RowFingerprint(i) = receiptFingerprint
  THEN [version |-> 1, duplicate |-> TRUE, device_velocity |-> 0,
        risk_score |-> DuplicateRisk,
        reasons |-> {"Duplicate receipt found (within 7 days)"},
        quality_score |-> 100, quality_flags |-> {}]
  ELSE LET similar == similarCount > 0
           velocity == velocityExceeded(deviceApprovals)
           qualityCheck == checkJustificationQuality(justification, enableQualityScoring)
           quality == qualityCheck.flags # {} /\ enableQualityScoring
           r1 == IF similar THEN Max(BaseRisk, FlagRisk) ELSE BaseRisk
           r2 == IF velocity THEN Max(r1, FlagRisk) ELSE r1
           r3 == IF quality THEN Max(r2, qualityRisk) ELSE r2
       IN [version |-> 1, duplicate |-> FALSE, device_velocity |-> deviceApprovals,
           risk_score |-> r3,
           reasons |-> (IF similar THEN {"Similar receipt pattern detected"} ELSE {})
                       \cup (IF velocity THEN {"Device velocity limit exceeded"} ELSE {})
                       \cup (IF quality THEN {"Quality flags"} ELSE {}),
           quality_score |-> qualityCheck.score,
           quality_flags |-> qualityCheck.flags]

checkJustificationQuality_v2(justification, enableQualityScoring) ==
  IF ~enableQualityScoring THEN [score |-> 100, flags |-> {}]
  ELSE LET len == IF justification.words < MinWords_v2 THEN [f |-> {"too_short"}, p |-> 30]
                  ELSE [f |-> {}, p |-> 0]
           ban == IF justification.boilerplate THEN [f |-> {"banned_phrase"}, p |-> 40]
                  ELSE [f |-> {}, p |-> 0]
           key == IF ~justification.keyword THEN [f |-> {"no_keyword"}, p |-> 20]
                  ELSE [f |-> {}, p |-> 0]
       IN [score |-> Max(0, 100 - len.p - ban.p - key.p),
           flags |-> len.f \cup ban.f \cup key.f]

\* fraudGuardAgent of the second tree; exactDuplicate is the row findFirst
\* returned (0 = null)
fraudGuardAgent_v2(exactDuplicate, justification, enableQualityScoring) ==
  IF exactDuplicate # 0 /\ RowFingerprint(exactDuplicate) = receiptFingerprint
  THEN [version |-> 2, duplicate |-> TRUE, device_velocity |-> 0,
        risk_score |-> DuplicateRisk, reasons |-> {"duplicate_receipt"},
        quality_score |-> 100, quality_flags |-> {}]
  ELSE LET similar == \E i \in fuzzyDuplicates : RowFuzzy(i) = fuzzyFingerprint
           velocity == velocityExceeded(deviceApprovals)
           qualityCheck == checkJustificationQuality_v2(justification, enableQualityScoring)
           r1 == IF similar THEN Max(BaseRisk_v2, FlagRisk) ELSE BaseRisk_v2
           r2 == IF velocity THEN Max(r1, FlagRisk) ELSE r1
       IN [version |-> 2, duplicate |-> FALSE, device_velocity |-> deviceApprovals,
           risk_score |-> r2,
           reasons |-> (IF similar THEN {"similar_receipt_pattern"} ELSE {})
                       \cup (IF velocity THEN {"velocity_limit_exceeded"} ELSE {}),
           quality_score |-> qualityCheck.score,
           quality_flags |-> qualityCheck.flags]

RECURSIVE every(_)
\* rules_fired.every(r => r.ok === true)
every(rules) == IF rules = <<>> THEN TRUE ELSE Head(rules) /\ every(Tail(rules))

\* variant: a risk score equal to the threshold is accepted
riskAcceptable_Inclusive(risk_score) == risk_score <= RiskThreshold

\* fraudResult.risk_score < 0.5
riskAcceptable(risk_score) == risk_score < RiskThreshold

\* processVerificationJob: the decision
decision(rules_fired, risk_score) ==
  IF every(rules_fired) /\ riskAcceptable(risk_score) THEN "APPROVE" ELSE "REJECT"

Outcome(fraudResult, rules_fired, justification, enableQualityScoring) ==
  [version |-> fraudResult.version, duplicate |-> fraudResult.duplicate,
   device_velocity |-> fraudResult.device_velocity,
   risk_score |-> fraudResult.risk_score, reasons |-> fraudResult.reasons,
   quality_score |-> fraudResult.quality_score,
   quality_flags |-> fraudResult.quality_flags,
   rules_fired |-> rules_fired, justification |-> justification,
   enableQualityScoring |-> enableQualityScoring,
   decision |-> decision(rules_fired, fraudResult.risk_score)]

\* processVerificationJob: verifier, fraud guard and decision
Verify ==
  /\ fraud = NoFraud
  /\ \E rules_fired \in RuleOutcomes, justification \in Justifications,
        enableQualityScoring \in BOOLEAN :
       fraud' = Outcome(fraudGuardAgent(justification, enableQualityScoring),
                        rules_fired, justification, enableQualityScoring)
  /\ UNCHANGED <<pipelineVars, fgTable>>

\* the same with the risk engine of the second tree; findFirst has no ORDER
\* BY and returns any row that matches its filter
Verify_v2 ==
  /\ fraud = NoFraud
  /\ \E exactDuplicate \in (IF previousSubmissions = {} THEN {0}
                            ELSE previousSubmissions),
        rules_fired \in RuleOutcomes, justification \in Justifications,
        enableQualityScoring \in BOOLEAN :
       fraud' = Outcome(fraudGuardAgent_v2(exactDuplicate, justification,
                                           enableQualityScoring),
                        rules_fired, justification, enableQualityScoring)
  /\ UNCHANGED <<pipelineVars, fgTable>>

NextFraud == Verify \/ Verify_v2

SpecFraud == InitFraud /\ [][NextFraud]_vars

\* ============================================================ rule verifier
\* agents/verifier.ts (the one worker.ts calls) and the verifier of the second
\* tree (unnamed/part_005), as functions of the eligibility predicates, the
\* extracted receipt fields and the submission.
\*
\* Strings are sequences of character codes: 1..26 lower case, 27..52 the
\* same letters in upper case, 0..9 digits in ZIP codes.
toLowerCase(str) == [i \in 1..Len(str) |-> IF str[i] > 26 THEN str[i] - 26 ELSE str[i]]

\* String.prototype.includes
includes(str, part) ==
  \E i \in 0..Len(str) :
    i + Len(part) <= Len(str) /\ SubSeq(str, i + 1, i + Len(part)) = part

\* String.prototype.startsWith
startsWith(str, prefix) ==
  Len(prefix) <= Len(str) /\ SubSeq(str, 1, Len(prefix)) = prefix

Chewy == <<29, 8>>
Petco == <<42, 5>>
MerchantNames == {<<3, 8, 24>>, <<16, 5>>, <<23, 1>>}
AllowedMerchants == <<Chewy, Petco>>
ZipCodes == {<<1, 0, 0>>, <<9, 4, 1>>}
AllowedPrefixes == <<<<1, 0>>, <<1, 1>>>>

\* operators a rule can carry: the two the verifier knows, the one the seed
\* uses for lists, and a misspelt one
Ops == {"<=", ">=", "in", "=<"}

\* thresholds of the predicates
AgeDaysLimit == 30
AgeLimit == 18
AmountLimits == {50, 5000}

\* a predicate {field, op, value}: value is a number (value) or a list (list)
Predicate(field, op, value, list) ==
  [field |-> field, op |-> op, value |-> value, list |-> list]

Predicates ==
  {Predicate("merchant", "in", 0, AllowedMerchants),
   Predicate("zip_prefix", "in", 0, AllowedPrefixes),
   Predicate("country", "in", 0, <<>>)}
  \cup {Predicate("receipt_age_days", op, AgeDaysLimit, <<>>) : op \in Ops}
  \cup {Predicate("age", op, AgeLimit, <<>>) : op \in Ops}
  \cup {Predicate("amount", op, v, <<>>) : op \in Ops, v \in AmountLimits}

\* rules.eligibility: one predicate, or one followed by a second
Eligibilities ==
  {<<p>> : p \in Predicates}
  \cup {<<p, q>> : p \in Predicates,
                  q \in {Predicate("zip_prefix", "in", 0, AllowedPrefixes)}}

\* the receipt's date as the text extraction gives it: a date some days ago,
\* or text that is no date
ReceiptDates == {[valid |-> TRUE, ago |-> d] : d \in {10, 30, 45}}
                \cup {[valid |-> FALSE, ago |-> 0]}

\* the receipt's total in cents
ReceiptCents == {49, 50, 51, 5000, 5001}

\* contributor.age: null or a number
ContributorAges == {[known |-> FALSE, n |-> 0]}
                   \cup {[known |-> TRUE, n |-> n] : n \in {0, 17, 18, 30}}

VerifierInputs ==
  [eligibility : Eligibilities, merchant : MerchantNames, date : ReceiptDates,
   cents : ReceiptCents, zip_prefix : ZipCodes, contributorAge : ContributorAges]

\* a RuleTrace; observed and the numbers a reason quotes are kept with their
\* kind, amounts in hundredths of the number that is shown
RuleTrace(field, ok, observed, reason) ==
  [field |-> field, ok |-> ok, observed |-> observed, reason |-> reason]

Observed(kind, n) == [kind |-> kind, n |-> n]
NoReason == [text |-> "", observed |-> 0, threshold |-> 0]
Reason(text, observed, threshold) ==
  [text |-> text, observed |-> observed, threshold |-> threshold]

\* case 'merchant' (both trees): substring match either way, lower case
merchant(predicate, in) ==
  LET merchantLower == toLowerCase(in.merchant)
      matches(allowed) == \/ includes(merchantLower, toLowerCase(allowed))
                          \/ includes(toLowerCase(allowed), merchantLower)
      ok == \E i \in 1..Len(predicate.list) : matches(predicate.list[i])
  IN RuleTrace("merchant", ok, Observed("text", 0),
               IF ok THEN NoReason ELSE Reason("not in allowed list", 0, 0))

\* case 'zip_prefix' (both trees)
zip_prefix(predicate, in) ==
  LET isPrefix(prefix) == startsWith(in.zip_prefix, prefix)
      ok == \E i \in 1..Len(predicate.list) : isPrefix(predicate.list[i])
  IN RuleTrace("zip_prefix", ok, Observed("text", 0),
               IF ok THEN NoReason ELSE Reason("not in allowed list", 0, 0))

\* op === '<=' ? a <= b : a >= b
upTo(op, a, b) == IF op = "<=" THEN a <= b ELSE a >= b

\* op === '>=' ? a >= b : a <= b
atLeast(op, a, b) == IF op = ">=" THEN a >= b ELSE a <= b

\* case 'receipt_age_days', verifier.ts: parseISO of text that is no date
\* does not throw, it gives an Invalid Date; differenceInDays is then NaN and
\* both comparisons with NaN are false
receipt_age_days(predicate, in) ==
  IF ~in.date.valid
  THEN RuleTrace("receipt_age_days", FALSE, Observed("NaN", 0),
                 Reason("does not satisfy", 0, predicate.value))
  ELSE LET ageDays == in.date.ago
           ok == upTo(predicate.op, ageDays, predicate.value)
       IN RuleTrace("receipt_age_days", ok, Observed("number", ageDays),
                    IF ok THEN NoReason
                    ELSE Reason("does not satisfy", ageDays, predicate.value))

\* case 'receipt_age_days', second tree: isNaN test first
receipt_age_days_v2(predicate, in) ==
  IF ~in.date.valid
  THEN RuleTrace("receipt_age_days", FALSE, Observed("invalid_date", 0),
                 Reason("Could not parse receipt date", 0, 0))
  ELSE LET ageDays == in.date.ago
           ok == upTo(predicate.op, ageDays, predicate.value)
       IN RuleTrace("receipt_age_days", ok, Observed("number", ageDays),
                    IF ok THEN NoReason
                    ELSE Reason("must be at most/at least", ageDays,
                                predicate.value))

\* ocr.ts: amount = parseFloat of the "$d.dd" text, a number of dollars; in
\* hundredths it is the receipt's total in cents
ocrAmount(total) == total

\* second tree: amountCents = Math.round(amount * 100)
amountCents(total) == total

\* a number n in hundredths
hundredths(n) == 100 * n

\* case 'amount', verifier.ts: the dollars of the receipt against value, both
\* printed as they are
amount(predicate, in) ==
  LET observed == ocrAmount(in.cents)
      value == hundredths(predicate.value)
      ok == upTo(predicate.op, observed, value)
  IN RuleTrace("amount", ok, Observed("number", observed),
               IF ok THEN NoReason
               ELSE Reason("does not satisfy", observed, value))

\* (n / 100).toFixed(2) of a whole number n: n hundredths
toFixed2(n) == n

\* case 'amount', second tree: cents against value as cents (value is a
\* number), both printed in dollars with two decimals
amount_v2(predicate, in) ==
  LET thresholdCents == predicate.value
      ok == upTo(predicate.op, amountCents(in.cents), thresholdCents)
  IN RuleTrace("amount", ok, Observed("number", hundredths(amountCents(in.cents))),
               IF ok THEN NoReason
               ELSE Reason("does not satisfy", toFixed2(amountCents(in.cents)),
                           toFixed2(thresholdCents)))

\* variant: an unknown age passes
ageMissing_Never(contributorAge) == FALSE

\* !contributorAge: null, undefined or 0
ageMissing(contributorAge) == ~contributorAge.known \/ contributorAge.n = 0

\* case 'age' (verifier.ts; the second tree differs in the wording)
age(predicate, in, wording) ==
  IF ageMissing(in.contributorAge)
  THEN RuleTrace("age", FALSE, Observed("unknown", 0),
                 Reason("age not provided", 0, 0))
  ELSE LET ok == atLeast(predicate.op, in.contributorAge.n, predicate.value)
       IN RuleTrace("age", ok, Observed("number", in.contributorAge.n),
                    IF ok THEN NoReason
                    ELSE Reason(wording, in.contributorAge.n, predicate.value))

\* variant: a field the verifier does not know passes
unknownFieldOk_Open == TRUE

\* default: ok = false
unknownFieldOk == FALSE

\* default branch of the switch (both trees)
unknown_field(predicate) ==
  RuleTrace(predicate.field, unknownFieldOk, Observed("unknown_field", 0),
            Reason("Unknown predicate field", 0, 0))

\* body of the loop over rules.eligibility, verifier.ts 72-164
ruleTrace(predicate, in) ==
  CASE predicate.field = "merchant" -> merchant(predicate, in)
    [] predicate.field = "receipt_age_days" -> receipt_age_days(predicate, in)
    [] predicate.field = "amount" -> amount(predicate, in)
    [] predicate.field = "zip_prefix" -> zip_prefix(predicate, in)
    [] predicate.field = "age" -> age(predicate, in, "does not satisfy")
    [] OTHER -> unknown_field(predicate)

\* body of the loop of the second tree, part_005 134-236
ruleTrace_v2(predicate, in) ==
  CASE predicate.field = "merchant" -> merchant(predicate, in)
    [] predicate.field = "receipt_age_days" -> receipt_age_days_v2(predicate, in)
    [] predicate.field = "amount" -> amount_v2(predicate, in)
    [] predicate.field = "zip_prefix" -> zip_prefix(predicate, in)
    [] predicate.field = "age" -> age(predicate, in, "does not meet the requirement")
    [] OTHER -> unknown_field(predicate)

\* verifierAgent: rules_fired
verifierAgent(in) ==
  [i \in 1..Len(in.eligibility) |-> ruleTrace(in.eligibility[i], in)]

verifierAgent_v2(in) ==
  [i \in 1..Len(in.eligibility) |-> ruleTrace_v2(in.eligibility[i], in)]

\* rules_fired.map(r => r.ok)
oks(rules_fired) == [i \in 1..Len(rules_fired) |-> rules_fired[i].ok]

\* risk scores the risk engine can return beside the verifier's trace
RiskScores == {BaseRisk, DuplicateRisk}

InitVerifier ==
  /\ demoMode = FALSE
  /\ budget_total = UnitAmount
  /\ budget_remaining = budget_total
  /\ questLock = 0
  /\ subStatus = [s \in Subs |-> "NONE"]
  /\ vr = [s \in Subs |-> NoVr]
  /\ payout = [s \in Subs |-> NoPayout]
  /\ jobs = <<>>
  /\ audit = {}
  /\ transfers = [s \in Subs |-> 0]
  /\ nForce = 0
  /\ proc = [w \in Workers |-> w]
  /\ isRunning = [w \in Workers |-> FALSE]
  /\ pc = [w \in Workers |-> "idle"]
  /\ wJob = [w \in Workers |-> 0]
  /\ wDecision = [w \in Workers |-> "NONE"]
  /\ attempt = [w \in Workers |-> 0]
  /\ lastError = [w \in Workers |-> NoError]
  /\ result = [w \in Workers |-> 0]
  /\ txn = [w \in Workers |-> NoTxn]
  /\ debits = [s \in Subs |-> 0]
  /\ adapter = 1
  /\ fgTable = <<>>
  /\ fraud = NoFraud
  /\ vInput \in VerifierInputs
  /\ vTrace = NoTrace

VerifierOutcome(version, rules_fired, risk_score) ==
  [version |-> version, rules_fired |-> rules_fired, risk_score |-> risk_score,
   decision |-> decision(oks(rules_fired), risk_score)]

\* processVerificationJob: verifier, risk score and decision
RunVerifier ==
  /\ vTrace = NoTrace
  /\ \E risk_score \in RiskScores :
       vTrace' = VerifierOutcome(1, verifierAgent(vInput), risk_score)
  /\ UNCHANGED <<payoutPhaseVars, vInput, fgTable, fraud>>

\* the same with the verifier of the second tree
RunVerifier_v2 ==
  /\ vTrace = NoTrace
  /\ \E risk_score \in RiskScores :
       vTrace' = VerifierOutcome(2, verifierAgent_v2(vInput), risk_score)
  /\ UNCHANGED <<payoutPhaseVars, vInput, fgTable, fraud>>

NextVerifier == RunVerifier \/ RunVerifier_v2

SpecVerifier == InitVerifier /\ [][NextVerifier]_vars

\* =================================================================== claims
PayoutJobs == {i \in 1..Len(jobs) : jobs[i].type = "PAYOUT"}
CompletedPayouts == {s \in Subs : payout[s].status = "COMPLETED"}
\* the worker is inside one attempt of the payout executor
InAttempt(w) == pc[w] \in {"pa_load", "pa_lock", "pa_auth", "pa_transfer",
                            "pa_commit", "pa_rollback"}
\* claimNextJob has returned the job id to the worker
HoldsJob(w) == wJob[w] # 0 /\ pc[w] \notin {"idle", "claim_update"}

\* C1: every submission that is PAID has had the quest budget decremented for
\* it exactly once, also when several PAYOUT jobs for it run concurrently.
C1_PaidDebitedOnce ==
  \A s \in Subs : subStatus[s] = "PAID" => debits[s] = 1

\* C2: no job is claimed by two workers: two workers never hold the same job
\* id returned by claimNextJob.
C2_ExclusiveClaim ==
  \A w1, w2 \in Workers :
    (w1 # w2 /\ HoldsJob(w1) /\ HoldsJob(w2)) => wJob[w1] # wJob[w2]

\* C3: in every reachable state 0 <= budget_remaining <= budget_total.
C3_BudgetBounds ==
  /\ 0 <= budget_remaining
  /\ budget_remaining <= budget_total

\* C3 witness: the budget is used up while another worker's payout attempt for
\* a different submission is in flight.
C3_Witness ==
  /\ budget_remaining = 0
  /\ \E w \in Workers, s \in Subs :
       /\ InAttempt(w)
       /\ SubOf(w) # s
       /\ payout[s].status = "COMPLETED"

\* every job is finished and every worker is back in its idle loop
Quiescent ==
  /\ \A w \in Workers : pc[w] = "idle"
  /\ \A i \in 1..Len(jobs) : jobs[i].status \in {"COMPLETED", "FAILED"}

\* errors of a payout attempt that do not come from the budget
OtherFailureMsgs == {ErrPolicyDenied.msg, ErrNetwork.msg, ErrTransferReverted.msg}

C4_State ==
  budget_total = UnitAmount =>
    /\ budget_remaining >= 0
    /\ Cardinality(CompletedPayouts) <= 1
    /\ CompletedPayouts # {} => budget_remaining = 0
    /\ Quiescent =>
         \/ Cardinality(CompletedPayouts) = 1
         \/ \A i \in PayoutJobs : /\ jobs[i].status = "FAILED"
                                  /\ jobs[i].last_error \in OtherFailureMsgs

C4_Step ==
  \A w \in Workers :
    ( /\ budget_total = UnitAmount
      /\ pc[w] = "pa_lock"
      /\ pc'[w] # "pa_lock"
      /\ \E s \in Subs : s # SubOf(w) /\ payout[s].status = "COMPLETED" )
    => /\ pc'[w] = "pa_rollback"
       /\ lastError'[w] = ErrBudgetExhausted
       /\ budget_remaining' = budget_remaining

\* C4: with budget_remaining = unit_amount at the start and two approved
\* submissions paid out concurrently, at most one payout completes and it
\* leaves budget_remaining = 0, the budget is never negative, the attempt for
\* the other submission that takes the quest lock afterwards fails with the
\* budget-exhausted policy violation, and once all jobs are finished exactly
\* one payout is COMPLETED unless every PAYOUT job failed on a policy denial
\* or a transfer error.
C4_OneOfTwoPaid == [](C4_State) /\ [][C4_Step]_vars

\* C4 witness: one submission paid, budget 0, and the PAYOUT job of the other
\* submission FAILED with the budget-exhausted message.
C4_Witness ==
  /\ budget_total = UnitAmount
  /\ budget_remaining = 0
  /\ \E s \in Subs, i \in PayoutJobs :
       /\ payout[s].status = "COMPLETED"
       /\ jobs[i].entity # s
       /\ jobs[i].status = "FAILED"
       /\ jobs[i].last_error = ErrBudgetExhausted.msg
       /\ payout[jobs[i].entity].status = "NONE"

TransferErrors == {ErrNetwork, ErrTransferReverted}

\* C5: after a payout attempt whose transfer failed, the budget shows no debit
\* for the attempt and the submission's Payout exists with status FAILED.
C5_FailedTransferRecorded ==
  \A w \in Workers :
    (pc[w] = "pa_catch" /\ lastError[w] \in TransferErrors)
    => /\ payout[SubOf(w)].status = "FAILED"
       /\ budget_remaining =
            budget_total - UnitAmount * Cardinality(CompletedPayouts)

C6_Step ==
  \A w \in Workers :
    ( /\ pc[w] = "pa_load"
      /\ pc'[w] # "pa_load"
      /\ payout[SubOf(w)].status = "COMPLETED" )
    => /\ pc'[w] = "complete"
       /\ result'[w] = payout[SubOf(w)].tx_hash
       /\ budget_remaining' = budget_remaining

\* C6: a call of the payout executor that finds the submission's Payout
\* COMPLETED returns the stored transfer reference and leaves the budget alone.
C6_IdempotentCall == [][C6_Step]_vars

\* the executor returned normally on its second attempt after a transient
\* transfer error on the first
RetriedOnceThenPaid(w) ==
  /\ pc[w] = "complete"
  /\ JobOf(w).type = "PAYOUT"
  /\ attempt[w] = 1
  /\ lastError[w] = ErrNetwork

PaidOnceAfterRetry(w) ==
  /\ payout[SubOf(w)].status = "COMPLETED"
  /\ debits[SubOf(w)] = 1
  /\ budget_remaining = budget_total - UnitAmount * Cardinality(CompletedPayouts)

\* C7 (original): transient error on attempt 1, success on attempt 2: Payout
\* COMPLETED, the Job's attempt count is 2, budget decremented once.
C7_JobAttemptsTwo ==
  \A w \in Workers :
    RetriedOnceThenPaid(w) => (PaidOnceAfterRetry(w) /\ JobOf(w).attempts = 2)

\* C7 (amended): with one worker process, transient error on attempt 1 and
\* success on attempt 2 of the executor: Payout COMPLETED, the Job's attempt
\* count is 1 (the retry runs inside the one claim), budget decremented once.
C7_JobAttemptsOne ==
  \A w \in Workers :
    RetriedOnceThenPaid(w) => (PaidOnceAfterRetry(w) /\ JobOf(w).attempts = 1)

\* C7 witness: the second attempt of a PAYOUT job succeeded after a network
\* error.
C7_Witness ==
  \E w \in Workers : RetriedOnceThenPaid(w) /\ subStatus[SubOf(w)] = "PAID"

C8_Step ==
  \A w \in Workers :
    (pc[w] = "pa_catch" /\ pc'[w] = "pa_load") => isTransient(lastError[w])

\* C8: retry() starts another attempt only after a transient (network or
\* timeout) error; after any other error the attempt is not repeated.
C8_RetryOnlyTransient == [][C8_Step]_vars

C9_Step ==
  \A w \in Workers :
    /\ ( /\ pc[w] = "pa_lock"
         /\ pc'[w] # "pa_lock"
         /\ budget_remaining < UnitAmount )
       => /\ pc'[w] = "pa_rollback"
          /\ lastError'[w] = ErrBudgetExhausted
    /\ ( /\ pc[w] \in {"pa_lock", "pa_auth"}
         /\ pc'[w] = "pa_rollback" )
       => /\ lastError'[w].cls = "PolicyViolation"
          /\ txn'[w].debit = 0
          /\ budget_remaining' = budget_remaining
    /\ ( /\ pc[w] \in {"pa_rollback", "pa_catch"}
         /\ lastError[w].cls = "PolicyViolation"
         /\ pc'[w] # pc[w] )
       => /\ pc'[w] \in {"pa_catch", "job_catch"}
          /\ attempt'[w] = attempt[w]
          /\ lastError'[w] = lastError[w]
          /\ budget_remaining' = budget_remaining
    /\ ( /\ pc[w] = "job_catch"
         /\ lastError[w].cls = "PolicyViolation"
         /\ pc'[w] # pc[w] )
       => /\ jobs'[wJob[w]].status = "FAILED"
          /\ jobs'[wJob[w]].last_error = lastError[w].msg
          /\ budget_remaining' = budget_remaining

\* C9: an attempt that meets insufficient budget or a denied authorization
\* throws a PolicyViolation before any decrement, is not repeated by retry(),
\* leaves budget_remaining as it was, and the worker marks its PAYOUT job
\* FAILED with the violation's message.
C9_PolicyViolationFinal == [][C9_Step]_vars

\* C9 witness: PAYOUT jobs FAILED with each of the two violations.
C9_Witness ==
  /\ \E i \in PayoutJobs : /\ jobs[i].status = "FAILED"
                           /\ jobs[i].last_error = ErrBudgetExhausted.msg
  /\ \E i \in PayoutJobs : /\ jobs[i].status = "FAILED"
                           /\ jobs[i].last_error = ErrPolicyDenied.msg

C10_State ==
  \A w \in Workers :
    /\ attempt[w] <= 3
    /\ InAttempt(w) => attempt[w] < 3
    /\ pc[w] = "pa_catch" => attempt[w] < 3

C10_Step ==
  \A w \in Workers :
    /\ (pc[w] = "pa_catch" /\ attempt'[w] = 3)
       => (pc'[w] = "job_catch" /\ lastError'[w] = lastError[w])
    /\ (pc[w] = "job_catch" /\ pc'[w] # pc[w])
       => /\ jobs'[wJob[w]].status = "FAILED"
          /\ jobs'[wJob[w]].last_error = lastError[w].msg

C11_FailedPayoutKeepsApproved ==
  \A w \in Workers :
    (pc[w] = "job_catch" /\ JobOf(w).type = "PAYOUT")
    => subStatus[SubOf(w)] = "APPROVED"

\* status changes the pipeline allows a worker to make
WorkerTransitions == {<<"PENDING", "PROCESSING">>, <<"PROCESSING", "APPROVED">>,
                      <<"PROCESSING", "REJECTED">>, <<"PROCESSING", "FAILED">>,
                      <<"APPROVED", "PAID">>}

\* the step is taken by a worker: not an intake and not a force-approve
ByWorker == nForce' = nForce /\ Len(jobs') >= Len(jobs) /\ pc' # pc

C12_Step ==
  \A s \in Subs :
    (ByWorker /\ subStatus'[s] # subStatus[s])
    => <<subStatus[s], subStatus'[s]>> \in WorkerTransitions

\* C12: every status change a worker makes to a submission is one of
\* PENDING->PROCESSING, PROCESSING->APPROVED, PROCESSING->REJECTED,
\* PROCESSING->FAILED or APPROVED->PAID; a REJECTED, FAILED or PAID submission
\* is never changed and an APPROVED one only becomes PAID.
C12_WorkerTransitions == [][C12_Step]_vars

\* the most jobs a run can create: a VERIFY and a PAYOUT job per submission
\* and a PAYOUT job per force-approve
MaxJobs == 2 * NumSubs + MaxForce

C13_State ==
  \A i \in 1..Len(jobs) :
    jobs[i].status = "PROCESSING" => \E w \in Workers : HoldsJob(w) /\ wJob[w] = i

C13_Step ==
  \A w \in Workers :
    /\ (pc[w] = "complete" /\ pc'[w] # pc[w])
       => (pc'[w] = "idle" /\ jobs'[wJob[w]].status = "COMPLETED")
    /\ (pc[w] = "job_catch" /\ pc'[w] # pc[w])
       => /\ pc'[w] = "idle"
          /\ jobs'[wJob[w]].status = "FAILED"
          /\ jobs'[wJob[w]].last_error # ""

\* status of the i-th job, "NONE" while it has not been created
JobStatus(i) == IF i <= Len(jobs) THEN jobs[i].status ELSE "NONE"

C13_Live ==
  \A i \in 1..MaxJobs :
    (JobStatus(i) = "PROCESSING") ~> (JobStatus(i) \in {"COMPLETED", "FAILED"})

\* C13: a job that is PROCESSING is held by a tick that has not ended; the
\* tick sets it COMPLETED when processing returned and FAILED with a non-empty
\* last_error when processing threw; every PROCESSING job eventually becomes
\* COMPLETED or FAILED.
C13_NoJobDropped == [](C13_State) /\ [][C13_Step]_vars /\ C13_Live

\* C13 witness: all ticks have ended, one job is COMPLETED and another FAILED
\* with its error message.
C13_Witness ==
  /\ \A w \in Workers : pc[w] = "idle"
  /\ \E i, k \in 1..Len(jobs) :
       /\ jobs[i].status = "COMPLETED"
       /\ jobs[k].status = "FAILED"
       /\ jobs[k].last_error # ""
       /\ jobs[k].attempts >= 2

\* the invocation has passed the re-entrancy test and has not returned
InFlight(w) == ~Idle(w)

\* another invocation of the same process is in flight
OtherInFlight(w) ==
  \E w2 \in Workers : w2 # w /\ proc[w2] = proc[w] /\ InFlight(w2)

C14_State ==
  \A w \in Workers : InFlight(w) => ~OtherInFlight(w)

C14_Step ==
  \A w \in Workers :
    (Idle(w) /\ OtherInFlight(w) /\ pc'[w] # pc[w])
    => /\ pc'[w] = "skipped"
       /\ jobs' = jobs
       /\ wJob' = wJob
       /\ isRunning' = isRunning

\* C14: within one worker process at most one invocation of workerLoop is
\* claiming or processing a job at any time; an invocation that fires while
\* another one of its process is in flight returns without claiming a job and
\* without touching the flag.
C14_OneJobPerProcess == [](C14_State) /\ [][C14_Step]_vars

\* C14 witness: an invocation returned at the flag while the other one was
\* processing a job and a QUEUED job was waiting.
C14_Witness ==
  \E w1, w2 \in Workers :
    /\ w1 # w2
    /\ proc[w1] = proc[w2]
    /\ pc[w1] = "skipped"
    /\ HoldsJob(w2)
    /\ QueuedIds # {}

\* every invocation of the process of w has returned
ProcessIdle(w) == \A w2 \in Workers : proc[w2] = proc[w] => Idle(w2)

C15_State ==
  \A w \in Workers :
    ProcessIdle(w) => /\ ~isRunning[proc[w]]
                      /\ QueuedIds # {} => ENABLED Tick(w)

C15_Step ==
  \A w \in Workers :
    /\ (Idle(w) /\ pc'[w] = "no_job")
       => (QueuedIds = {} /\ UNCHANGED <<jobs, subStatus, payout, budget_remaining>>)
    /\ (pc[w] = "no_job" /\ pc'[w] # pc[w])
       => /\ pc'[w] = "idle"
          /\ ~isRunning'[proc[w]]
          /\ UNCHANGED <<jobs, subStatus, payout, budget_remaining>>
    /\ (pc[w] = "job_catch" /\ pc'[w] # pc[w])
       => /\ pc'[w] = "idle"
          /\ ~isRunning'[proc[w]]
          /\ jobs'[wJob[w]].status = "FAILED"
          /\ jobs'[wJob[w]].last_error = lastError[w].msg

\* C15: a tick that finds no QUEUED job changes no job, submission, payout or
\* budget and returns; a tick whose job fails records the failure on the job
\* and returns; when every invocation of a process has returned its flag is
\* false and a tick can claim the oldest QUEUED job.
C15_LoopSurvives == [](C15_State) /\ [][C15_Step]_vars

\* C15 witness: a job failed, a later job was claimed by a later tick, and a
\* tick is now finding the queue empty.
C15_Witness ==
  \E w \in Workers, i, k \in 1..Len(jobs) :
    /\ pc[w] = "no_job"
    /\ i < k
    /\ jobs[i].status = "FAILED"
    /\ jobs[i].last_error # ""
    /\ jobs[k].attempts >= 1

\* the risk engine has returned and the decision is taken
Decided == fraud # NoFraud

\* earlier APPROVED or PAID submissions of the same wallet with the receipt
\* fingerprint of the submission being verified
ExactMatches ==
  {i \in Rows : /\ fgTable[i].wallet = Current.wallet
                /\ fgTable[i].status \in {"APPROVED", "PAID"}
                /\ RowFingerprint(i) = receiptFingerprint}

\* C16: when an APPROVED or PAID submission of the same wallet has the same
\* receipt fingerprint, whatever else the wallet has submitted, the risk
\* engine returns risk score 1.0 with the duplicate marker and the decision is
\* REJECT whatever the eligibility predicates say.
C16_DuplicateRejected ==
  (Decided /\ ExactMatches # {})
  => /\ fraud.risk_score = 100
     /\ fraud.duplicate
     /\ fraud.decision = "REJECT"

\* C17: the decision is APPROVE exactly when every eligibility predicate of
\* the trace passed and the risk score is strictly below 0.5.
C17_DecisionRule ==
  Decided =>
    ( fraud.decision = "APPROVE"
      <=> /\ \A k \in 1..Len(fraud.rules_fired) : fraud.rules_fired[k]
          /\ fraud.risk_score < 50 )

\* C17 witness: every predicate passed, the risk score is exactly 0.5 and the
\* decision is REJECT.
C17_Witness ==
  /\ Decided
  /\ fraud.rules_fired = <<TRUE, TRUE>>
  /\ fraud.risk_score = 50
  /\ fraud.decision = "REJECT"

\* earlier APPROVED or PAID submissions of the same wallet from the last 7
\* days with the merchant and date of the submission being verified
FuzzyMatches ==
  {i \in Rows : /\ fgTable[i].wallet = Current.wallet
                /\ fgTable[i].status \in {"APPROVED", "PAID"}
                /\ fgTable[i].age <= 7
                /\ RowFuzzy(i) = fuzzyFingerprint}

FuzzyReasons == {"Similar receipt pattern detected", "similar_receipt_pattern"}
VelocityReasons == {"Device velocity limit exceeded", "velocity_limit_exceeded"}

\* C18: the fuzzy rule flags the submission, raising the risk score to at
\* least 0.5, exactly when a recent APPROVED or PAID submission of the same
\* wallet has the same merchant and date; otherwise it does not flag it.
C18_FuzzyExactlyOnMatch ==
  Decided =>
    /\ FuzzyMatches # {} => fraud.risk_score >= 50
    /\ ~fraud.duplicate =>
         (fraud.reasons \cap FuzzyReasons # {} <=> FuzzyMatches # {})

\* submissions of the device approved since midnight
ApprovedToday ==
  {i \in Rows : /\ fgTable[i].device = Current.device
                /\ fgTable[i].status = "APPROVED"
                /\ fgTable[i].age = 0}

\* C19: with 3 or more APPROVED submissions of the device since midnight the
\* risk score is at least 0.5; with fewer the velocity rule does not fire and
\* does not raise the score.
C19_VelocityCap ==
  Decided =>
    /\ Cardinality(ApprovedToday) >= 3 => fraud.risk_score >= 50
    /\ Cardinality(ApprovedToday) < 3 =>
         /\ fraud.reasons \cap VelocityReasons = {}
         /\ (~fraud.duplicate /\ fraud.reasons \cap FuzzyReasons = {})
            => fraud.risk_score < 50

\* C19 witness: exactly 3 approvals today, no other rule fired, risk score 0.5
\* from the velocity rule of fraud-guard.ts.
C19_Witness ==
  /\ Decided
  /\ fraud.version = 1
  /\ Cardinality(ApprovedToday) = 3
  /\ fraud.reasons = {"Device velocity limit exceeded"}
  /\ fraud.risk_score = 50

\* C20: when neither the duplicate, the fuzzy nor the velocity rule fired the
\* risk score is strictly below 0.5, whatever the quality flags and whether
\* quality scoring is enabled or not.
C20_QualityNeverRejects ==
  ( /\ Decided
    /\ ~fraud.duplicate
    /\ fraud.reasons \cap (FuzzyReasons \cup VelocityReasons) = {} )
  => /\ fraud.risk_score < 50
     /\ every(fraud.rules_fired) => fraud.decision = "APPROVE"

\* C20 witness: quality scoring enabled, the justification gets every flag,
\* and the submission is approved with risk score 0.3.
C20_Witness ==
  /\ Decided
  /\ fraud.version = 1
  /\ fraud.enableQualityScoring
  /\ fraud.quality_flags = {"too_short", "boilerplate", "no_pet_keyword"}
  /\ fraud.risk_score = 30
  /\ fraud.rules_fired = <<TRUE, TRUE>>
  /\ fraud.decision = "APPROVE"

C21_Step ==
  \A s \in Subs : subStatus[s] = "PAID" => vr'[s] = vr[s]

\* C21: once a submission is PAID no operation changes its
\* VerificationResult, an administrative force-approve included.
C21_VerificationFrozenOncePaid == [][C21_Step]_vars

\* C22: every submission has at most one Payout and at most one
\* VerificationResult, and a submission that is APPROVED, REJECTED or PAID
\* has exactly one VerificationResult.
C22_OneResultOnePayout ==
  \A s \in Subs :
    /\ payout[s].rows <= 1
    /\ vr[s].rows <= 1
    /\ payout[s].rows = 0 <=> payout[s].status = "NONE"
    /\ vr[s].rows = 0 <=> vr[s].decision = "NONE"
    /\ subStatus[s] \in {"APPROVED", "REJECTED", "PAID"} => vr[s].rows = 1

\* C22 witness: a submission is PAID with its one Payout and its one
\* VerificationResult after two workers ran its VERIFY job.
C22_Witness ==
  \E s \in Subs, i \in 1..Len(jobs) :
    /\ subStatus[s] = "PAID"
    /\ payout[s].rows = 1
    /\ vr[s].rows = 1
    /\ jobs[i].type = "VERIFY"
    /\ jobs[i].entity = s
    /\ jobs[i].attempts >= 2

C23_Step ==
  /\ \A w \in Workers :
       /\ (pc[w] = "v_catch" /\ pc'[w] # pc[w])
          => /\ pc'[w] = "job_catch"
             /\ subStatus'[SubOf(w)] = "FAILED"
             /\ jobs' = jobs
       /\ (pc[w] = "job_catch" /\ JobOf(w).type = "VERIFY" /\ pc'[w] # pc[w])
          => /\ jobs'[wJob[w]].status = "FAILED"
             /\ jobs'[wJob[w]].last_error = lastError[w].msg
             /\ lastError[w].msg # ""
             /\ Len(jobs') = Len(jobs)
  /\ \A i \in 1..Len(jobs) :
       (jobs[i].type = "VERIFY" /\ jobs[i].status = "FAILED") => jobs'[i] = jobs[i]

\* C23: when the verifier or the risk engine throws during a VERIFY job the
\* worker sets the submission FAILED and the job FAILED with the error
\* message, enqueues no PAYOUT job, and the FAILED job is never claimed or
\* changed again.
C23_VerifyFailureFinal == [][C23_Step]_vars

\* C23 witness: the VERIFY job of a FAILED submission is FAILED with the
\* verifier's message and no PAYOUT job exists.
C23_Witness ==
  \E i \in 1..Len(jobs) :
    /\ jobs[i].type = "VERIFY"
    /\ jobs[i].status = "FAILED"
    /\ jobs[i].last_error = ErrVerifier.msg
    /\ subStatus[jobs[i].entity] = "FAILED"
    /\ PayoutJobs = {}
    /\ \A w \in Workers : pc[w] = "idle"

PayoutJobsOf(s) == {i \in PayoutJobs : jobs[i].entity = s}

C24_Step ==
  \A w \in Workers :
    LET s == SubOf(w)
    IN /\ (pc[w] = "v_status" /\ pc'[w] # pc[w])
          => /\ jobs' = jobs
             /\ wDecision[w] = "APPROVE"
                => pc'[w] = "v_enqueue" /\ subStatus'[s] = "APPROVED"
             /\ wDecision[w] = "REJECT"
                => pc'[w] = "complete" /\ subStatus'[s] = "REJECTED"
       /\ (pc[w] = "v_enqueue" /\ pc'[w] # pc[w])
          => /\ jobs' = Append(jobs, [type |-> "PAYOUT", entity |-> s,
                                       status |-> "QUEUED", attempts |-> 0,
                                       last_error |-> ""])
             /\ vr[s].decision = "APPROVE"
             /\ wDecision[w] = "APPROVE"
             /\ pc'[w] = "complete"
       /\ (pc[w] \in {"v_mark", "v_agents", "v_catch"} /\ pc'[w] # pc[w])
          => Len(jobs') = Len(jobs)

C24_State ==
  /\ \A w \in Workers : pc[w] = "v_enqueue" => wDecision[w] = "APPROVE"
  /\ \A s \in Subs : PayoutJobsOf(s) # {} => vr[s].decision = "APPROVE"
  /\ Cardinality(PayoutJobs)
       <= nForce + Cardinality({s \in Subs : vr[s].decision = "APPROVE"})

\* C24: processing a VERIFY job appends exactly one QUEUED PAYOUT job when
\* the decision is APPROVE (after the status was set APPROVED) and none when
\* it is REJECT; a PAYOUT job exists only for a submission whose
\* VerificationResult says APPROVE, one per approval beside the forced ones.
C24_PayoutJobOnlyOnApprove == [](C24_State) /\ [][C24_Step]_vars

\* C24 witness: the worker approved a submission and completed its VERIFY
\* job, leaving exactly one QUEUED PAYOUT job, with no force-approve.
C24_Witness ==
  \E s \in Subs, i \in 1..Len(jobs) :
    /\ nForce = 0
    /\ jobs[i].type = "VERIFY" /\ jobs[i].entity = s
    /\ jobs[i].status = "COMPLETED"
    /\ vr[s].decision = "APPROVE"
    /\ subStatus[s] = "APPROVED"
    /\ Cardinality(PayoutJobsOf(s)) = 1
    /\ \A j \in PayoutJobsOf(s) : jobs[j].status = "QUEUED"

C25_Frame ==
  /\ budget_remaining' = budget_remaining
  /\ payout' = payout
  /\ subStatus' = subStatus
  /\ transfers' = transfers

C25_Refused(w) ==
  \/ subStatus[SubOf(w)] # "APPROVED"
  \/ vr[SubOf(w)].decision = "NONE"

C25_Step ==
  \A w \in Workers :
    /\ (pc[w] = "dispatch" /\ pc'[w] # pc[w] /\ JobOf(w).type = "PAYOUT"
        /\ C25_Refused(w))
       => pc'[w] \in {"complete", "job_catch"} /\ C25_Frame
    /\ (pc[w] = "pa_load" /\ pc'[w] # pc[w] /\ C25_Refused(w))
       => pc'[w] = "pa_catch" /\ C25_Frame
    /\ (pc[w] \in {"pa_catch", "job_catch", "complete"} /\ pc'[w] # pc[w])
       => C25_Frame

\* C25: a PAYOUT job or a payout executor call that finds the submission's
\* status different from APPROVED, or no VerificationResult, returns or
\* throws at that test and, up to the end of the job, changes neither
\* budget_remaining, nor a Payout record, nor a submission's status, and
\* makes no transfer.
C25_RefusedPayoutChangesNothing == [][C25_Step]_vars

\* C25 witness: a worker finished a PAYOUT job of a submission that was
\* already PAID without producing a result; one debit, one transfer.
C25_Witness ==
  \E w \in Workers :
    /\ pc[w] = "complete"
    /\ JobOf(w).type = "PAYOUT"
    /\ subStatus[SubOf(w)] = "PAID"
    /\ result[w] = 0
    /\ debits[SubOf(w)] = 1
    /\ transfers[SubOf(w)] = 1

C26_Step ==
  \A w \in Workers :
    LET s == SubOf(w)
    IN /\ (pc[w] = "pa_transfer" /\ transfers'[s] = transfers[s] + 1
           /\ audit' = audit)
          => /\ pc'[w] = "pa_commit"
             /\ txn'[w].payout.status = "COMPLETED"
             /\ txn'[w].paid
             /\ txn'[w].debit = UnitAmount
       /\ (pc[w] = "pa_commit" /\ pc'[w] # pc[w])
          => /\ payout'[s].status = "COMPLETED"
             /\ subStatus'[s] = "PAID"
             /\ budget_remaining' = budget_remaining - UnitAmount

\* C26: when the transfer succeeded and the payout_completed audit event
\* could not be recorded, the payout transaction still goes to its commit,
\* and the commit leaves the Payout COMPLETED, the submission PAID and the
\* budget decremented by one unit amount.
C26_AuditFailureKeepsPayout == [][C26_Step]_vars

\* C26 witness: a submission is PAID with a COMPLETED Payout and one debit
\* although no audit event was recorded for it.
C26_Witness ==
  \E s \in Subs :
    /\ subStatus[s] = "PAID"
    /\ payout[s].status = "COMPLETED"
    /\ debits[s] = 1
    /\ budget_remaining = budget_total - UnitAmount
    /\ \A e \in audit : e.entity # s

C27_Live ==
  \A i \in 1..MaxJobs :
    /\ (JobStatus(i) = "PROCESSING") ~> (JobStatus(i) \in {"COMPLETED", "FAILED"})
    /\ (JobStatus(i) = "QUEUED") ~> (JobStatus(i) # "QUEUED")

\* C27: no external call blocks the pipeline for ever: also when a transfer
\* call never returns, the job that made it eventually becomes COMPLETED or
\* FAILED and every job queued behind it is eventually claimed.
C27_NoCallBlocksForever == C27_Live

C28_Ended(s) ==
  \/ subStatus[s] \in {"REJECTED", "FAILED", "PAID"}
  \/ /\ subStatus[s] = "APPROVED"
     /\ \E i \in PayoutJobsOf(s) : jobs[i].status = "FAILED"

\* C28: with fair worker ticks every submission that is PENDING or
\* PROCESSING eventually is REJECTED, FAILED or PAID, or is APPROVED with a
\* PAYOUT job that ended FAILED.
C28_SubmissionEventuallySettled ==
  \A s \in Subs : (subStatus[s] \in {"PENDING", "PROCESSING"}) ~> C28_Ended(s)

C29_Served(s) ==
  /\ vr'[s].decision = "APPROVE"
  /\ vr'[s].rows = 1
  /\ subStatus'[s] = "APPROVED"
  /\ jobs' = Append(jobs, [type |-> "PAYOUT", entity |-> s, status |-> "QUEUED",
                           attempts |-> 0, last_error |-> ""])
  /\ \A r \in Subs \ {s} : vr'[r] = vr[r] /\ subStatus'[r] = subStatus[r]

C29_Step ==
  nForce' # nForce
  => IF demoMode
     THEN \/ \E s \in Subs : subStatus[s] # "NONE" /\ C29_Served(s)
          \/ /\ \E s \in Subs : subStatus[s] = "NONE"
             /\ UNCHANGED <<subStatus, vr, jobs>>
     ELSE UNCHANGED <<subStatus, vr, jobs>>

C30_Claims(i) ==
  /\ jobs'[i].status = "PROCESSING"
  /\ jobs'[i].attempts = jobs[i].attempts + 1

C30_Step ==
  \A i \in 1..Len(jobs) :
    C30_Claims(i)
    => /\ jobs[i].status = "QUEUED"
       /\ \A k \in 1..Len(jobs) :
            /\ k < i => jobs[k].status # "QUEUED" /\ jobs[k].attempts >= 1
            /\ k > i => jobs[k].status = "QUEUED" /\ jobs[k].attempts = 0

\* C30: with a single worker, the job claimNextJob moves to PROCESSING is
\* QUEUED, every job created before it has been claimed already and no job
\* created after it has: jobs are claimed in the order of their creation
\* and never while an older job is still QUEUED.
C30_OldestFirst == [][C30_Step]_vars

\* C30 witness: the second of three jobs is claimed while the first is
\* finished and the third, created later, is still QUEUED.
C30_Witness ==
  /\ Len(jobs) = 3
  /\ jobs[1].status \in {"COMPLETED", "FAILED"}
  /\ jobs[2].status = "PROCESSING"
  /\ jobs[3].status = "QUEUED"
  /\ wJob[1] = 2

KnownFields == {"merchant", "receipt_age_days", "amount", "zip_prefix", "age"}

\* the i-th predicate is one the verifier must refuse
C31_Refuses(i) ==
  \/ vInput.eligibility[i].field \notin KnownFields
  \/ /\ vInput.eligibility[i].field = "age"
     /\ ~vInput.contributorAge.known

\* C31: in either tree, a predicate on a field the verifier does not know and
\* an age predicate for a contributor of unknown age give a trace entry with
\* ok = false and a reason, and the decision is REJECT.
C31_FailsClosed ==
  vTrace.version # 0
  => \A i \in 1..Len(vInput.eligibility) :
       C31_Refuses(i)
       => /\ vTrace.rules_fired[i].ok = FALSE
          /\ vTrace.rules_fired[i].reason.text # ""
          /\ vTrace.decision = "REJECT"

\* C31 witness: the verifier met an age predicate for an unknown age beside one
\* that passes, with the lowest risk score.
C31_Witness ==
  /\ vTrace.version = 1
  /\ vTrace.risk_score = BaseRisk
  /\ Len(vInput.eligibility) = 2
  /\ C31_Refuses(1)
  /\ vInput.eligibility[1].field = "age"
  /\ vTrace.rules_fired[2].ok
  /\ vTrace.decision = "REJECT"

\* the i-th predicate is an amount bound with operator <=
C32_AmountUpTo(i) ==
  vInput.eligibility[i].field = "amount" /\ vInput.eligibility[i].op = "<="

C32_Entry(i) ==
  LET entry == vTrace.rules_fired[i]
      threshold == vInput.eligibility[i].value
  IN /\ entry.ok <=> vInput.cents <= threshold
     /\ ~entry.ok => /\ entry.reason.text = "does not satisfy"
                     /\ entry.reason.observed = vInput.cents
                     /\ entry.reason.threshold = threshold

\* C32: an amount predicate with operator <= passes exactly when the receipt's
\* total in cents is at most the threshold in cents (5001 against 5000
\* fails), and a failing one carries a "does not satisfy" reason that shows
\* the total and the threshold in dollars, that is as so many hundredths.
C32_AmountInMinorUnits ==
  vTrace.version # 0
  => \A i \in 1..Len(vInput.eligibility) : C32_AmountUpTo(i) => C32_Entry(i)

\* the same for the verifier of the second tree alone
C32_SecondTree ==
  vTrace.version = 2
  => \A i \in 1..Len(vInput.eligibility) : C32_AmountUpTo(i) => C32_Entry(i)

\* the i-th predicate bounds a number with an operator that is no bound
C39_Malformed(i) ==
  /\ vInput.eligibility[i].field \in {"receipt_age_days", "amount", "age"}
  /\ vInput.eligibility[i].op \notin {"<=", ">="}

\* C39: a receipt_age_days, amount or age predicate whose operator is neither
\* <= nor >= gives a trace entry with ok = false, so it never lets a
\* submission pass.
C39_MalformedOperatorFailsClosed ==
  vTrace.version = 1
  => \A i \in 1..Len(vInput.eligibility) :
       C39_Malformed(i) => vTrace.rules_fired[i].ok = FALSE

\* C33: over all retries and all PAYOUT jobs of a submission at most one
\* transfer succeeds for it.
C33_AtMostOneTransfer == \A s \in Subs : transfers[s] <= 1

\* C34: a submission is PAID only if it has a COMPLETED Payout with a
\* transfer reference, and the budget spent equals unit_amount for each
\* COMPLETED Payout.
C34_PaidAndBudgetConsistent ==
  /\ \A s \in Subs :
       subStatus[s] = "PAID"
       => payout[s].status = "COMPLETED" /\ payout[s].tx_hash # 0
  /\ budget_total - budget_remaining = UnitAmount * Cardinality(CompletedPayouts)

C35_Forward ==
  {<<"QUEUED", "PROCESSING">>, <<"PROCESSING", "COMPLETED">>,
   <<"PROCESSING", "FAILED">>}

C35_Step ==
  \A i \in 1..Len(jobs) :
    jobs'[i].status # jobs[i].status
    => <<jobs[i].status, jobs'[i].status>> \in C35_Forward

\* C35: with any number of workers every change of a job's status is
\* QUEUED -> PROCESSING, PROCESSING -> COMPLETED or PROCESSING -> FAILED; a
\* COMPLETED or FAILED job is never set back to PROCESSING.
C35_JobStatusForward == [][C35_Step]_vars

\* a PAID submission has a COMPLETED Payout with a transfer reference
C34_PaidHasCompletedPayout ==
  \A s \in Subs :
    subStatus[s] = "PAID" => payout[s].status = "COMPLETED" /\ payout[s].tx_hash # 0

C36_Step ==
  \A i \in 1..Len(jobs) :
    jobs'[i].attempts # jobs[i].attempts
    => /\ jobs'[i].attempts = jobs[i].attempts + 1
       /\ jobs'[i].status = "PROCESSING"
       /\ \E w \in Workers : pc[w] = "claim_update" /\ wJob[w] = i
                             /\ pc'[w] = "dispatch"

\* C36: a job's attempt counter is incremented by exactly 1 by each claim
\* and by nothing else, whether the job then succeeds or fails.
C36_AttemptsCountClaims == [][C36_Step]_vars

C37_State ==
  \A e \in audit :
    e.event = "payout_completed" => payout[e.entity].status = "COMPLETED"

C37_Step == audit \subseteq audit'

\* C37: every payout_completed audit event is for a payout committed as
\* COMPLETED, and audit events are never modified or deleted.
C37_AuditOnlyForCommittedPayout == [](C37_State) /\ [][C37_Step]_vars

\* the audit log only grows
C37_AppendOnly == [][C37_Step]_vars

\* C38: while the payout transaction holds the row lock on the quest, the
\* spend authorizer it calls is never left waiting for that lock.
C38_AuthorizerNeverWaits ==
  \A w \in Workers :
    (pc[w] = "pa_auth" /\ questLock = w) => ~authorizerWaits

====
